---- MODULE Spec2Model ----
(***************************************************************************)
(* TNE education assessment platform: the scoring / aggregation pipeline   *)
(* and its asynchronous job lifecycle.                                     *)
(*                                                                         *)
(* Conventions of the model                                                *)
(*   - an optional value (Python None or x) is a set with at most one      *)
(*     element: {} is None, {x} is x;                                      *)
(*   - scores are integers in hundredths of a point (70.0 is 7000), item   *)
(*     weights in tenths (0.5 is 5), theme weights in hundredths (0.25 is  *)
(*     25); round(x, 2) is exact round-half-even on these rationals;       *)
(*   - time is in minutes.                                                 *)
(***************************************************************************)
EXTENDS Integers, Sequences, FiniteSets, TLC

(***************************************************************************)
(* Bounds of the model                                                     *)
(***************************************************************************)
MaxJobs == 1
MaxTime == 11
MaxRedeliveries == 1

(***************************************************************************)
(* Program constants                                                       *)
(***************************************************************************)
STALE_MINUTES == 10
MAX_ATTEMPTS == 3
CACHE_TTL == 10080
MIN_TEXT_LEN == 10
DEFAULT_THEME_WEIGHT == 20
TickMinutes == 11

(***************************************************************************)
(* Optional values and rounding                                            *)
(***************************************************************************)
None == {}
Some(x) == {x}
The(s) == CHOOSE x \in s : TRUE

RECURSIVE SumOver(_, _)
SumOver(S, f) ==
    IF S = {} THEN 0
    ELSE LET x == CHOOSE y \in S : TRUE
         IN f[x] + SumOver(S \ {x}, f)

\* variant: ties away from zero
RoundHalfUp(n, d) ==
    LET q == n \div d
        r == n % d
    IN IF 2 * r < d THEN q ELSE q + 1

\* Python round(n / d, ...) on the scaled integers, ties to even (n >= 0, d > 0)
RoundHalfEven(n, d) ==
    LET q == n \div d
        r == n % d
    IN IF 2 * r < d THEN q
       ELSE IF 2 * r > d THEN q + 1
       ELSE IF q % 2 = 0 THEN q ELSE q + 1

Min(a, b) == IF a < b THEN a ELSE b
Max(a, b) == IF a > b THEN a ELSE b

(***************************************************************************)
(* JSON payloads.  A JSON scalar is a record with a type tag; a string is  *)
(* known by an identity (n) and its stripped length (len).                 *)
(***************************************************************************)
JAbsent == [ty |-> "absent", n |-> 0, len |-> 0]
JNum(n) == [ty |-> "num", n |-> n, len |-> 0]
JStr(id, len) == [ty |-> "str", n |-> id, len |-> len]
\* true / false, and a list of n elements that prints in len characters
JBool(b) == [ty |-> "bool", n |-> IF b THEN 1 ELSE 0, len |-> 0]
JList(n, len) == [ty |-> "list", n |-> n, len |-> len]

\* Python truthiness of a JSON scalar (an absent key reads as its default "")
Truthy(j) ==
    CASE j.ty \in {"num", "bool", "list", "dict"} -> j.n # 0
      [] j.ty = "str" -> j.len > 0
      [] OTHER -> FALSE

\* response.value: None or a dict with the keys the scorers read
NoneValue == [ty |-> "none", value |-> JAbsent, text |-> JAbsent]
Dict(v, t) == [ty |-> "dict", value |-> v, text |-> t]
\* a dict with the keys the binary and time-series scorers read as well
Obj(v, t, answer, evidence, years) ==
    [ty |-> "dict", value |-> v, text |-> t, answer |-> answer,
     evidence |-> evidence, years |-> years]
\* a value that is not a dict: the JSON string or list itself
Scalar(j) == [ty |-> "scalar", value |-> j, text |-> JAbsent]
\* the "years" mapping, its values in the order of the sorted keys; a year's
\* value is a number, a string, or a mapping of two genders
Years(vals) == [ty |-> "dict", n |-> Len(vals), len |-> 0, vals |-> vals]
Gendered(m, f) == [ty |-> "dict", male |-> m, female |-> f]

(***************************************************************************)
(* Scorer results: None, a dict {score, feedback}, or an exception.  A     *)
(* feedback string is kept as its kind and the number it prints.           *)
(***************************************************************************)
NullFeedback == [kind |-> "null", n |-> 0]
Feedback(kind, n) == [kind |-> kind, n |-> n]
RetNone ==
    [ret |-> "none", score |-> None, feedback |-> NullFeedback, calls |-> 0,
     call_failed |-> FALSE]
RetDict(score, fb) ==
    [ret |-> "dict", score |-> score, feedback |-> fb, calls |-> 0,
     call_failed |-> FALSE]
RetRaise ==
    [ret |-> "raise", score |-> None, feedback |-> NullFeedback, calls |-> 0,
     call_failed |-> FALSE]

(***************************************************************************)
(* Template configuration (seeded data): themes, items, rubrics            *)
(***************************************************************************)
Assessments == {"a1", "a2"}
Themes == {"teaching-learning", "governance"}
Items == {"TL01", "GV05"}
ItemOrder == <<"TL01", "GV05">>

NumericRubric(ranges) == [present |-> TRUE, type |-> "numeric_range", ranges |-> ranges]
TextRubric == [present |-> TRUE, type |-> "text_rubric", ranges |-> <<>>]
BinaryRubric(type) == [present |-> TRUE, type |-> type, ranges |-> <<>>]
TrendRubric(dir) ==
    [present |-> TRUE, type |-> "trend", ranges |-> <<>>, ideal_direction |-> dir]
Range(lo, hi, sc) == [min |-> lo, max |-> hi, score |-> sc]

ItemCfg(i) ==
    IF i = "TL01"
    THEN [theme |-> "teaching-learning", field_type |-> "numeric", weight |-> 5,
          is_required |-> TRUE,
          rubric |-> NumericRubric(<<Range(Some(1), Some(5), 40),
                                     Range(Some(5), Some(15), 70),
                                     Range(Some(15), Some(100), 100)>>)]
    ELSE [theme |-> "governance", field_type |-> "long_text", weight |-> 10,
          is_required |-> TRUE, rubric |-> TextRubric]

THEME_WEIGHTS(slug) ==
    CASE slug = "teaching-learning" -> Some(25)
      [] slug = "student-experience" -> Some(25)
      [] slug = "governance" -> Some(20)
      [] slug = "impact" -> Some(15)
      [] slug = "financial" -> Some(15)
      [] OTHER -> None

(***************************************************************************)
(* Numeric-Range scorer                                                    *)
(***************************************************************************)
\* variant: the upper bound belongs to the range
InRangeClosed(r, x) ==
    /\ (r.min = None \/ The(r.min) <= x)
    /\ (r.max = None \/ x <= The(r.max))

\* r_min <= num_value < r_max, a missing bound being infinite
InRange(r, x) ==
    /\ (r.min = None \/ The(r.min) <= x)
    /\ (r.max = None \/ x < The(r.max))

score_numeric(value, rubric) ==
    IF value.ty = "none" \/ ~rubric.present THEN RetNone
    ELSE LET num_value == value.value
         IN IF num_value.ty \notin {"num", "bool"} THEN RetNone
            ELSE LET hits == {k \in 1..Len(rubric.ranges) :
                                  InRange(rubric.ranges[k], num_value.n)}
                 IN IF hits = {} THEN RetNone
                    ELSE LET first == CHOOSE k \in hits : \A m \in hits : k <= m
                             score == rubric.ranges[first].score * 100
                         IN RetDict(Some(score), Feedback("range", num_value.n))

(***************************************************************************)
(* Binary and time-series scorers                                          *)
(***************************************************************************)
\* variant: the answer "no" scores 0 whatever the evidence
score_binary_no_is_zero(value, rubric) ==
    IF value.ty = "none" THEN RetNone
    ELSE LET answer == IF value.ty = "dict" THEN value.answer ELSE value.value
             evidence == IF value.ty = "dict" THEN value.evidence ELSE JAbsent
             evidence_quality == IF evidence.len > 500 THEN 85
                                 ELSE IF evidence.len > 200 THEN 65 ELSE 40
         IN IF answer.ty = "absent" THEN RetNone
            ELSE IF ~Truthy(answer) THEN RetDict(Some(0), Feedback("binary", 0))
            ELSE IF /\ rubric.present /\ rubric.type = "binary_with_evidence"
                    /\ Truthy(evidence) /\ evidence.len > 50
            THEN RetDict(Some(3000 + 70 * evidence_quality),
                         Feedback("binary_evidence", evidence_quality))
            ELSE RetDict(Some(10000), Feedback("binary", 100))

score_binary(value, rubric) ==
    IF value.ty = "none" THEN RetNone
    ELSE LET answer == IF value.ty = "dict" THEN value.answer ELSE value.value
         IN IF answer.ty = "absent" THEN RetNone
            ELSE LET binary_score == IF Truthy(answer) THEN 100 ELSE 0
                     rubric_type == IF rubric.present THEN rubric.type ELSE ""
                     evidence == IF value.ty = "dict" THEN value.evidence ELSE JAbsent
                     evidence_quality == IF evidence.len > 500 THEN 85
                                         ELSE IF evidence.len > 200 THEN 65 ELSE 40
                 IN IF /\ rubric_type = "binary_with_evidence"
                       /\ Truthy(evidence) /\ evidence.len > 50
                    THEN RetDict(Some(30 * binary_score + 70 * evidence_quality),
                                 Feedback("binary_evidence", evidence_quality))
                    ELSE RetDict(Some(binary_score * 100),
                                 Feedback("binary", binary_score))

\* the direction of the least-squares slope of the values against 0, 1, ...:
\* slope = 2 * N2 / (n * D4), compared with 0.01 * mean (0.01 for a zero mean)
calculate_trend(values) ==
    LET n == Len(values)
        total == SumOver(1..n, [k \in 1..n |-> values[k]])
        N2 == SumOver(1..n, [k \in 1..n |->
                                (2 * (k - 1) - (n - 1)) * (n * values[k] - total)])
        D4 == SumOver(1..n, [k \in 1..n |->
                                (2 * (k - 1) - (n - 1)) * (2 * (k - 1) - (n - 1))])
        T == IF total # 0 THEN total * D4 ELSE n * D4
    IN IF n < 2 THEN "insufficient_data"
       ELSE IF 200 * N2 > T THEN "increasing"
       ELSE IF 200 * N2 < 0 - T THEN "decreasing"
       ELSE "stable"

score_timeseries(value, rubric) ==
    IF value.ty = "none" \/ ~rubric.present THEN RetNone
    ELSE LET years_data == IF value.ty = "dict" THEN value.years ELSE JAbsent
         IN IF ~Truthy(years_data) THEN RetNone
            ELSE IF years_data.ty # "dict" THEN RetRaise
            ELSE LET counted == SelectSeq(years_data.vals,
                                          LAMBDA v : v.ty \in {"dict", "num"})
                     Num(j) == IF j.ty = "num" THEN j.n ELSE 0
                     totals == [k \in 1..Len(counted) |->
                                   IF counted[k].ty = "dict"
                                   THEN Num(counted[k].male) + Num(counted[k].female)
                                   ELSE counted[k].n]
                 IN IF Len(totals) < 2
                    THEN RetDict(Some(5000), Feedback("insufficient_data", 0))
                    ELSE LET direction == calculate_trend(totals)
                             trend_bonus ==
                                 IF direction = rubric.ideal_direction THEN 20
                                 ELSE IF direction = "stable" THEN 0 ELSE 0 - 20
                         IN RetDict(Some(Max(0, Min(100, 60 + trend_bonus)) * 100),
                                    Feedback("trend", trend_bonus))

(***************************************************************************)
(* Text-Evaluator client: cache, bounded retry                             *)
(***************************************************************************)
\* What the external service answers to one call: an error, or a completion
\* whose text (fences stripped) is or is not a JSON object of sub-scores.
Failure == [ok |-> FALSE, valid |-> FALSE, total_score |-> 0, dims |-> 0]
Completion(valid, total, dims) ==
    [ok |-> TRUE, valid |-> valid, total_score |-> total, dims |-> dims]

\* _cache_key: one key per (item, response text)
CacheKey(i, text) == <<i, text.n>>

\* variant: a hit returns an unparseable completion instead of the stored one
get_cached_garbled(cache, key, now) ==
    IF key \in DOMAIN cache /\ now - cache[key].timestamp < CACHE_TTL
    THEN Some([ok |-> TRUE, valid |-> FALSE, total_score |-> 0, dims |-> 0])
    ELSE None

get_cached(cache, key, now) ==
    IF key \in DOMAIN cache /\ now - cache[key].timestamp < CACHE_TTL
    THEN Some(cache[key].result)
    ELSE None

\* the entry is deleted when it is found expired
cache_after_get(cache, key, now) ==
    IF key \in DOMAIN cache /\ ~(now - cache[key].timestamp < CACHE_TTL)
    THEN [k \in DOMAIN cache \ {key} |-> cache[k]]
    ELSE cache

set_cached(cache, key, result, now) ==
    [k \in DOMAIN cache \cup {key} |->
        IF k = key THEN [result |-> result, timestamp |-> now] ELSE cache[k]]

\* variant: the retry has no stop condition
call_claude_no_stop(cache, key, answers, now) ==
    LET cached == get_cached(cache, key, now)
        c1 == cache_after_get(cache, key, now)
        tries == 1..Len(answers)
        good == {k \in tries : answers[k].ok}
    IN IF cached # None
       THEN [raised |-> FALSE, result |-> The(cached), cache |-> cache, calls |-> 0]
       ELSE IF good = {}
       THEN [raised |-> TRUE, result |-> Failure, cache |-> c1,
             calls |-> Cardinality(tries)]
       ELSE LET k == CHOOSE x \in good : \A y \in good : x <= y
            IN [raised |-> FALSE, result |-> answers[k],
                cache |-> set_cached(c1, key, answers[k], now), calls |-> k]

\* answers: what the service would answer to the 1st, 2nd, ... call
call_claude(cache, key, answers, now) ==
    LET cached == get_cached(cache, key, now)
        c1 == cache_after_get(cache, key, now)
        tries == 1..Min(MAX_ATTEMPTS, Len(answers))
        good == {k \in tries : answers[k].ok}
    IN IF cached # None
       THEN [raised |-> FALSE, result |-> The(cached), cache |-> cache, calls |-> 0]
       ELSE IF good = {}
       THEN [raised |-> TRUE, result |-> Failure, cache |-> c1,
             calls |-> Cardinality(tries)]
       ELSE LET k == CHOOSE x \in good : \A y \in good : x <= y
            IN [raised |-> FALSE, result |-> answers[k],
                cache |-> set_cached(c1, key, answers[k], now), calls |-> k]

(***************************************************************************)
(* Rubric-Text scorer                                                      *)
(***************************************************************************)
\* value.get("text", "") or value.get("value", "")
TextOf(value) == IF Truthy(value.text) THEN value.text ELSE value.value

\* variant: a completion that does not parse counts as a total of 0
ParseScoresZeroOnFailure(result) ==
    LET total == IF ~result.valid \/ result.total_score = 0 THEN result.dims
                 ELSE result.total_score
    IN RetDict(Some(Min(100, Max(0, total)) * 100), Feedback("llm", total))

\* the part of score_text after the call returned: parse and total
ParseScores(result) ==
    IF ~result.valid THEN RetDict(None, Feedback("scoring_error", 0))
    ELSE LET total == IF result.total_score = 0 THEN result.dims
                      ELSE result.total_score
         IN RetDict(Some(Min(100, Max(0, total)) * 100), Feedback("llm", total))

\* returns the scorer result and the cache it leaves; a value that is not a
\* dict is scored on its printed form, str(value)
score_text(value, item, cache, answers, now) ==
    IF value.ty = "none" THEN [r |-> RetNone, cache |-> cache]
    ELSE LET text_value == IF value.ty = "dict" THEN TextOf(value)
                           ELSE JStr(value.value.n, value.value.len)
         IN IF ~Truthy(text_value)
            THEN [r |-> RetDict(Some(0), Feedback("too_short", 0)), cache |-> cache]
            ELSE IF text_value.ty # "str"
            THEN [r |-> RetRaise, cache |-> cache]
            ELSE IF text_value.len < MIN_TEXT_LEN
            THEN [r |-> RetDict(Some(0), Feedback("too_short", 0)), cache |-> cache]
            ELSE LET call == call_claude(cache, CacheKey(item, text_value), answers, now)
                 IN IF call.raised
                    THEN [r |-> [RetDict(None, Feedback("scoring_error", 0))
                                   EXCEPT !.calls = call.calls, !.call_failed = TRUE],
                          cache |-> call.cache]
                    ELSE [r |-> [ParseScores(call.result) EXCEPT !.calls = call.calls],
                          cache |-> call.cache]

(***************************************************************************)
(* Consistency checker: rule pass and model pass.  responses_by_code maps  *)
(* an item code to its response value; a code without an entry reads as    *)
(* the empty dict.                                                         *)
(***************************************************************************)
CONSISTENCY_RULES ==
    <<"staff_count_vs_phd", "flying_faculty_vs_staff", "retention_plausibility",
      "employment_rate_plausibility">>

\* rule["check"](responses_by_code): "ok", "violated", "type_error" (a string
\* compared with a number) or "attribute_error" (an entry that is not a dict)
RuleCheck(id, r) ==
    LET Get(code, default) ==          \* r.get(code, {}).get("value", d) or d
            IF Truthy(r[code].value) THEN r[code].value ELSE default
        Inf == [ty |-> "inf", n |-> 0, len |-> 0]
        Leq(x, y) ==
            IF x.ty = "str" /\ y.ty = "str" THEN IF x.n <= y.n THEN "ok" ELSE "violated"
            ELSE IF x.ty \in {"str", "list"} \/ y.ty \in {"str", "list"} THEN "type_error"
            ELSE IF y.ty = "inf" \/ x.n <= y.n THEN "ok" ELSE "violated"
        Within(code) ==
            LET x == Get(code, JNum(50))
                lo == Leq(JNum(0), x)
            IN IF lo # "ok" THEN lo ELSE Leq(x, JNum(100))
        Reads(codes) ==
            IF \E c \in codes : r[c].ty # "dict" THEN "attribute_error" ELSE "ok"
    IN CASE id = "staff_count_vs_phd" ->
              IF Reads({"TL07", "TL06"}) # "ok" THEN "attribute_error"
              ELSE Leq(Get("TL07", JNum(0)), Get("TL06", Inf))
         [] id = "flying_faculty_vs_staff" ->
              IF Reads({"TL09", "TL06"}) # "ok" THEN "attribute_error"
              ELSE Leq(Get("TL09", JNum(0)), Get("TL06", Inf))
         [] id = "retention_plausibility" ->
              IF Reads({"TL04"}) # "ok" THEN "attribute_error" ELSE Within("TL04")
         [] OTHER ->
              IF Reads({"SE04"}) # "ok" THEN "attribute_error" ELSE Within("SE04")

\* KeyError and TypeError skip the rule; any other exception propagates
run_rule_checks(r) ==
    LET ids == CONSISTENCY_RULES
        hit == SelectSeq(ids, LAMBDA id : RuleCheck(id, r) = "violated")
    IN [raised |-> \E k \in DOMAIN ids : RuleCheck(ids[k], r) = "attribute_error",
        issues |-> [k \in DOMAIN hit |->
                       [severity |-> "high", rule_id |-> hit[k],
                        type |-> "rule_violation"]]]

\* a completion of the model pass: whether it parses to a JSON object, and its
\* "issues" member: absent, a list of n issues, or something else
IssuesCompletion(valid, kind, n) ==
    [ok |-> TRUE, valid |-> valid, issues |-> [kind |-> kind, n |-> n]]

check_consistency(r, use_ai, cache, answers, now) ==
    LET rules == run_rule_checks(r)
        call == call_claude(cache, <<"consistency", 0>>, answers, now)
        issues == call.result.issues
        \* ai_issues stays [] when the call or the parse raised inside the try
        caught == call.raised \/ ~call.result.valid
        ai_issues == IF ~use_ai \/ caught \/ issues.kind = "absent" THEN <<>>
                     ELSE [k \in 1..issues.n |->
                              [severity |-> "medium", rule_id |-> "", type |-> "ai"]]
        all_issues == rules.issues \o ai_issues
        \* rule_issues + ai_issues with ai_issues that is not a list: TypeError
        raised == rules.raised \/ (use_ai /\ ~caught /\ issues.kind = "other")
    IN [raised |-> raised,
        is_consistent |-> Len(all_issues) = 0,
        issues |-> all_issues,
        rule_issues_count |-> Len(rules.issues),
        ai_issues_count |-> Len(ai_issues),
        calls |-> IF use_ai /\ ~rules.raised THEN call.calls ELSE 0]

(***************************************************************************)
(* Rule-based risk engine.  Weights are in hundredths; a raw score is in    *)
(* units of 1/4200 (every rule's divisor divides 4200), a weighted          *)
(* contribution and the total in units of 1/420000; what the result reports *)
(* is rounded to thousandths.                                               *)
(***************************************************************************)
RISK_RULES ==
    <<[id |-> "low_financial_score", weight |-> 25, metric |-> "financial",
       kind |-> "below", threshold |-> 40, default |-> 50, span |-> 40],
      [id |-> "declining_enrollment", weight |-> 20, metric |-> "enrollment_trend",
       kind |-> "trend", threshold |-> 0, default |-> 0, span |-> 1],
      [id |-> "low_retention", weight |-> 15, metric |-> "retention_rate",
       kind |-> "below", threshold |-> 70, default |-> 80, span |-> 70],
      [id |-> "high_ssr", weight |-> 15, metric |-> "ssr",
       kind |-> "above", threshold |-> 35, default |-> 20, span |-> 30],
      [id |-> "low_governance", weight |-> 15, metric |-> "governance",
       kind |-> "below", threshold |-> 50, default |-> 60, span |-> 50],
      [id |-> "low_staff_qualifications", weight |-> 10, metric |-> "phd_pct",
       kind |-> "below", threshold |-> 20, default |-> 40, span |-> 20]>>

\* a value of the metric enrollment_trend
Trend(direction) == [ty |-> "str", n |-> 0, len |-> 10, word |-> direction]

\* rule["evaluate"](assessment_metrics): the raw score, or the TypeError of a
\* comparison with a metric that is not a number
evaluate(rule, metrics) ==
    LET m == metrics[rule.metric]
        x == IF m.ty = "absent" THEN rule.default ELSE m.n
        step == 4200 \div rule.span
    IN IF rule.kind = "trend"
       THEN [raised |-> FALSE, raw |-> IF m = Trend("decreasing") THEN 3360 ELSE 0]
       ELSE IF m.ty \notin {"absent", "num"} THEN [raised |-> TRUE, raw |-> 0]
       ELSE IF rule.kind = "below"
       THEN [raised |-> FALSE,
             raw |-> IF x < rule.threshold
                     THEN Max(0, (rule.threshold - x) * step) ELSE 0]
       ELSE [raised |-> FALSE,
             raw |-> IF x > rule.threshold
                     THEN Min(4200, Max(0, (x - rule.threshold) * step)) ELSE 0]

compute_risk_score(assessment_metrics) ==
    LET rules == DOMAIN RISK_RULES
        ev == [k \in rules |-> evaluate(RISK_RULES[k], assessment_metrics)]
        weighted == [k \in rules |->
                        IF ev[k].raised THEN 0 ELSE ev[k].raw * RISK_RULES[k].weight]
        total_risk == SumOver(rules, weighted)
        clamped == Min(420000, Max(0, total_risk))
        factor == [k \in rules |->
                      [rule_id |-> RISK_RULES[k].id,
                       raw_score |-> RoundHalfEven(ev[k].raw * 10, 42),
                       weighted_contribution |-> RoundHalfEven(weighted[k], 420)]]
        active == {k \in rules : ~ev[k].raised /\ ev[k].raw > 0}
        \* the stable sort, highest contribution first
        Before(j, k) ==
            \/ factor[j].weighted_contribution > factor[k].weighted_contribution
            \/ /\ factor[j].weighted_contribution = factor[k].weighted_contribution
               /\ j < k
        Place(k) == Cardinality({j \in active : Before(j, k)}) + 1
    IN [risk_score |-> RoundHalfEven(clamped, 420),
        risk_level |-> IF clamped >= 252000 THEN "high"
                       ELSE IF clamped >= 126000 THEN "medium" ELSE "low",
        contributing_factors |->
            [p \in 1..Cardinality(active) |->
                factor[CHOOSE k \in active : Place(k) = p]],
        rules_evaluated |-> Len(RISK_RULES)]

(***************************************************************************)
(* Orchestrator dispatch                                                   *)
(***************************************************************************)
SKIP_SCORING == {"file_upload", "dropdown", "multi_select", "partner_specific",
                 "salary_bands"}
NumericTypes == {"numeric", "percentage", "auto_calculated"}
TextTypes == {"long_text", "short_text"}

\* SCORER_MAP.get(field_type): which scorer, if any
SCORER_MAP(field_type) ==
    CASE field_type \in NumericTypes -> Some("score_numeric")
      [] field_type = "yes_no_conditional" -> Some("score_binary")
      [] field_type \in TextTypes -> Some("score_text")
      [] field_type = "multi_year_gender" -> Some("score_timeseries")
      [] OTHER -> None

(***************************************************************************)
(* Scoring loop of the orchestrator over one assessment's response rows.   *)
(* rows: [Items -> row]; answers: [Items -> what the service answers].     *)
(***************************************************************************)
NoRow == [exists |-> FALSE, value |-> NoneValue, ai_score |-> None,
          ai_feedback |-> NullFeedback]
NewRow(v) == [exists |-> TRUE, value |-> v, ai_score |-> None,
              ai_feedback |-> NullFeedback]

\* scorer(value=..., rubric=..., item=...): the result and the client's cache
ApplyScorer(scorer, value, rubric, i, cache, answers, now) ==
    CASE scorer = "score_numeric" -> [r |-> score_numeric(value, rubric), cache |-> cache]
      [] scorer = "score_binary" -> [r |-> score_binary(value, rubric), cache |-> cache]
      [] scorer = "score_timeseries" ->
            [r |-> score_timeseries(value, rubric), cache |-> cache]
      [] OTHER -> score_text(value, i, cache, answers, now)

\* one call of the scorer the item's field type maps to
RunScorer(i, value, cache, answers, now) ==
    LET cfg == ItemCfg(i)
    IN ApplyScorer(The(SCORER_MAP(cfg.field_type)), value, cfg.rubric, i, cache,
                   answers, now)

\* response.ai_score / ai_feedback are written only for a result that is not None
ApplyResult(row, r) ==
    IF r.ret = "dict"
    THEN [row EXCEPT !.ai_score = r.score, !.ai_feedback = r.feedback]
    ELSE row

\* the loop body for the k-th response, threaded through an accumulator
\* acc = [rows, cache, raised, scored, skipped, calls, call_failed, outcome]
ScoreOne(acc, i, answers, now) ==
    LET row == acc.rows[i]
        cfg == ItemCfg(i)
    IN IF acc.raised \/ ~row.exists THEN acc
       ELSE IF cfg.field_type \in SKIP_SCORING \/ SCORER_MAP(cfg.field_type) = None
       THEN [acc EXCEPT !.skipped = @ + 1]
       ELSE LET s == RunScorer(i, row.value, acc.cache, answers[i], now)
            IN IF s.r.ret = "raise"
               THEN [acc EXCEPT !.raised = TRUE, !.cache = s.cache]
               ELSE [acc EXCEPT
                       !.rows[i] = ApplyResult(row, s.r),
                       !.cache = s.cache,
                       !.scored = IF s.r.ret = "dict" THEN @ + 1 ELSE @,
                       !.calls = @ + s.r.calls,
                       !.call_failed = @ \/ s.r.call_failed,
                       !.outcome[i] = IF s.r.ret = "dict" /\ s.r.score # None
                                      THEN "scored" ELSE "noscore"]

RECURSIVE ScoreFrom(_, _, _, _)
ScoreFrom(acc, k, answers, now) ==
    IF k > Len(ItemOrder) THEN acc
    ELSE ScoreFrom(ScoreOne(acc, ItemOrder[k], answers, now), k + 1, answers, now)

ScoreLoop(rows, cache, answers, now) ==
    ScoreFrom([rows |-> rows, cache |-> cache, raised |-> FALSE, scored |-> 0,
               skipped |-> 0, calls |-> 0, call_failed |-> FALSE,
               outcome |-> [i \in Items |-> "untouched"]],
              1, answers, now)

(***************************************************************************)
(* Theme aggregation                                                       *)
(***************************************************************************)
ItemsOf(t) == {i \in Items : ItemCfg(i).theme = t}

\* the responses of a theme that carry a score
Scored(rows, t) == {i \in ItemsOf(t) : rows[i].exists /\ rows[i].ai_score # None}

\* variant: the quotient is truncated instead of rounded
WeightedMeanFloor(S, score, weight) ==
    LET total_weight == SumOver(S, [i \in S |-> weight[i]])
        weighted_sum == SumOver(S, [i \in S |-> score[i] * weight[i]])
    IN IF total_weight > 0 THEN Some(weighted_sum \div total_weight)
       ELSE None

\* round(weighted_sum / total_weight, 2) over the scored responses S, or None
WeightedMean(S, score, weight) ==
    LET total_weight == SumOver(S, [i \in S |-> weight[i]])
        weighted_sum == SumOver(S, [i \in S |-> score[i] * weight[i]])
    IN IF total_weight > 0 THEN Some(RoundHalfEven(weighted_sum, total_weight))
       ELSE None

Normalised(rows, t) ==
    LET S == Scored(rows, t)
    IN WeightedMean(S, [i \in S |-> The(rows[i].ai_score)],
                    [i \in S |-> ItemCfg(i).weight])

\* THEME_WEIGHTS.get(theme.slug, 0.2)
ThemeWeight(t) ==
    IF THEME_WEIGHTS(t) # None THEN The(THEME_WEIGHTS(t)) ELSE DEFAULT_THEME_WEIGHT

Weighted(normalised, t) ==
    IF normalised # None
    THEN Some(RoundHalfEven(The(normalised) * ThemeWeight(t), 100))
    ELSE None

ThemeScoreRow(a, t, rows, run) ==
    [a |-> a, theme |-> t, normalised_score |-> Normalised(rows, t),
     weighted_score |-> Weighted(Normalised(rows, t), t), run |-> run]

NewThemeScores(a, rows, run) == {ThemeScoreRow(a, t, rows, run) : t \in Themes}

ThemeScoresOf(table, a) == {ts \in table : ts.a = a}

\* variant: the delete has no where clause
DeleteAllThemeScores(table, a) == {}

\* delete(ThemeScore).where(ThemeScore.assessment_id == assessment_id)
DeleteThemeScores(table, a) == {ts \in table : ts.a # a}

\* any(ts.weighted_score for ts in theme_scores): truthiness, so 0.0 does not count
AnyWeighted(tss) == \E ts \in tss : ts.weighted_score # None /\ The(ts.weighted_score) # 0

OverallScore(tss) ==
    LET S == {ts \in tss : ts.weighted_score # None}
        overall == SumOver(S, [ts \in S |-> The(ts.weighted_score)])
    IN IF AnyWeighted(tss) THEN Some(overall) ELSE None

(***************************************************************************)
(* State                                                                   *)
(***************************************************************************)
VARIABLES
    status,       \* Assessment.status, per assessment
    overall,      \* Assessment.overall_score, per assessment (optional)
    responses,    \* AssessmentResponse rows: [Assessments -> [Items -> row]]
    themeScores,  \* the theme_scores table: a set of rows
    jobs,         \* the ai_jobs table: [JobIds -> job]
    queue,        \* task messages held by the broker
    exec,         \* per worker process: the task it executes and where it is
    cache,        \* per worker process: the Text-Evaluator client's _cache
    now,          \* the clock
    resp,         \* the reply of the step just taken, when it is a trigger request
    runs,         \* history: the last two scoring runs that committed
    lastAttempt,  \* history: per answer of a1, how its last committed scoring went
    uncommitted,  \* job rows inserted by a request whose transaction is still open
    fn            \* the library function just evaluated: its arguments and result

vars == <<status, overall, responses, themeScores, jobs, queue, exec, cache, now,
          resp, runs, lastAttempt, uncommitted, fn>>

JobIds == 1..MaxJobs
Workers == {"w1", "w2"}
Scorable == {"submitted", "under_review"}
Reportable == {"scored", "report_generated"}
Editable == {"draft", "under_review"}
Terminal == {"completed", "failed"}

VALID_TRANSITIONS(s) ==
    CASE s = "draft" -> {"submitted"}
      [] s = "submitted" -> {"under_review"}
      [] s = "under_review" -> {"scored"}
      [] s = "scored" -> {"report_generated"}
      [] OTHER -> {}

AllStatuses == {"draft", "submitted", "under_review", "scored", "report_generated"}

(***************************************************************************)
(* Inputs of the model                                                     *)
(***************************************************************************)
Essay == JStr(1, 120)
ShortText == JStr(2, 4)

PayloadsFor(i) ==
    IF i = "TL01"
    THEN {Dict(JNum(7), JAbsent), Dict(JNum(500), JAbsent)}
    ELSE {Dict(JAbsent, Essay), Dict(JAbsent, ShortText), Dict(JAbsent, JNum(12345))}

Good == Completion(TRUE, 80, 80)
Garbage == Completion(FALSE, 0, 0)

\* what the external service answers to successive calls for one answer
ExtBehaviours ==
    {<<Failure, Failure, Failure, Good>>,
     <<Good, Good, Good, Good>>,
     <<Failure, Failure, Good, Good>>,
     <<Garbage, Garbage, Garbage, Garbage>>}

Silent == <<Failure, Failure, Failure, Failure>>

\* only text answers reach the service
AnswerChoices ==
    {f \in [Items -> ExtBehaviours \cup {Silent}] :
        \A i \in Items : (ItemCfg(i).field_type \in TextTypes) = (f[i] # Silent)}

(***************************************************************************)
(* Job records                                                             *)
(***************************************************************************)
NoJob == [status |-> "absent", job_type |-> "", a |-> "", progress |-> 0,
          result_data |-> None, error_message |-> None, started_at |-> None,
          completed_at |-> None, created_at |-> 0]

NewJob(a, job_type, t) ==
    [NoJob EXCEPT !.status = "queued", !.job_type = job_type, !.a = a,
                  !.created_at = t]

\* _update_job_status on one row; an absent row is left alone
update_job_status(job, st, result_data, error_message, progress, t) ==
    IF job.status = "absent" THEN job
    ELSE [job EXCEPT
            !.status = st,
            !.result_data = IF result_data # None THEN result_data ELSE @,
            !.error_message = IF error_message # None THEN error_message ELSE @,
            !.progress = IF progress # None THEN The(progress) ELSE @,
            !.started_at = IF st = "processing" /\ @ = None THEN Some(t) ELSE @,
            !.completed_at = IF st \in Terminal THEN Some(t) ELSE @]

FreeJobs == {j \in JobIds : jobs[j].status = "absent"}

(***************************************************************************)
(* Worker processes                                                        *)
(***************************************************************************)
NoSession ==
    [loaded |-> [i \in Items |-> NoRow], local |-> [i \in Items |-> NoRow],
     deleted |-> {}, inserted |-> {}, overall_score |-> None,
     outcome |-> [i \in Items |-> "untouched"], calls |-> 0, scored |-> 0,
     skipped |-> 0]

\* sess: the task's database session (identity map and pending writes)
Idle == [pc |-> "idle", job |-> 0, delivery |-> 0, raised |-> FALSE,
         error |-> "", result |-> None, restored |-> FALSE, sess |-> NoSession]

Message(j, d) == [job |-> j, delivery |-> d]

RunId(w) == <<exec[w].job, exec[w].delivery>>


\* a theme score as a caller sees it in the result (no row identity)
Visible(tss) == {[theme |-> ts.theme, normalised_score |-> ts.normalised_score,
                  weighted_score |-> ts.weighted_score] : ts \in tss}

A2Rows ==
    [i \in Items |->
        IF i = "TL01"
        THEN [exists |-> TRUE, value |-> Dict(JNum(7), JAbsent),
              ai_score |-> Some(7000), ai_feedback |-> Feedback("range", 7)]
        ELSE [exists |-> TRUE, value |-> Dict(JAbsent, ShortText),
              ai_score |-> Some(0), ai_feedback |-> Feedback("too_short", 0)]]

A2ThemeScores == NewThemeScores("a2", A2Rows, <<0, 0>>)

\* resp holds what the step just taken replied, if it was a trigger request
NoReply == [op |-> "", a |-> "", code |-> 0]

\* fn holds the call of a scorer, the client, the aggregator or the checker
\* evaluated on its own, outside a task
NoCall == [op |-> "none"]

\* a step that is neither a trigger request nor such an evaluation, and that
\* opens no request transaction
Quiet == resp' = NoReply /\ UNCHANGED <<uncommitted, fn>>

\* the database, the broker and the workers before any request
Start ==
    /\ status = [a \in Assessments |-> IF a = "a1" THEN "draft" ELSE "scored"]
    /\ responses = [a \in Assessments |->
                      IF a = "a1" THEN [i \in Items |-> NoRow] ELSE A2Rows]
    /\ themeScores = A2ThemeScores
    /\ overall = [a \in Assessments |->
                    IF a = "a1" THEN None ELSE OverallScore(A2ThemeScores)]
    /\ jobs = [j \in JobIds |-> NoJob]
    /\ queue = {}
    /\ exec = [w \in Workers |-> Idle]
    /\ cache = [w \in Workers |-> <<>>]
    /\ now = 0
    /\ resp = NoReply
    /\ runs = <<>>
    /\ lastAttempt = [i \in Items |-> "untouched"]
    /\ uncommitted = {}

Init == Start /\ fn = NoCall

(***************************************************************************)
(* HTTP endpoints that write                                               *)
(***************************************************************************)
Reply(op, a, code) == [op |-> op, a |-> a, code |-> code]

\* the response columns a scoring session writes
ScoreCols == {"ai_score", "ai_feedback"}

\* the columns whose value in the session differs from the one it loaded
DirtyCols(sess, i) == {c \in ScoreCols : sess.local[i][c] # sess.loaded[i][c]}
DirtyRows(sess) == {i \in Items : DirtyCols(sess, i) # {}}

\* rows a worker's open transaction has updated and so holds locked
LockedBy(w) ==
    IF exec[w].pc \in {"delete", "aggregate", "commit"} THEN DirtyRows(exec[w].sess)
    ELSE {}

RowLocked(a, i) ==
    \E w \in Workers : exec[w].pc # "idle" /\ jobs[exec[w].job].a = a /\ i \in LockedBy(w)

\* PUT /assessments/{a}/responses/{i}; the UPDATE waits for a locked row
save_response(a, i, v) ==
    /\ ~RowLocked(a, i)
    /\ IF status[a] \in Editable
       THEN responses' = [responses EXCEPT ![a][i] =
                                IF @.exists THEN [@ EXCEPT !.value = v] ELSE NewRow(v)]
       ELSE UNCHANGED responses
    /\ UNCHANGED <<status, overall, themeScores, jobs, queue, exec, cache, now, runs,
                   lastAttempt>>
    /\ Quiet

MissingRequired(a) == {i \in Items : ItemCfg(i).is_required /\ ~responses[a][i].exists}

\* POST /assessments/{a}/submit
submit_assessment(a) ==
    /\ IF status[a] = "draft" /\ MissingRequired(a) = {}
       THEN status' = [status EXCEPT ![a] = "submitted"]
       ELSE UNCHANGED status
    /\ UNCHANGED <<overall, responses, themeScores, jobs, queue, exec, cache, now,
                   runs, lastAttempt>>
    /\ Quiet

\* POST /assessments/{a}/status/{new_status}
update_status(a, new_status) ==
    /\ IF new_status \in VALID_TRANSITIONS(status[a])
       THEN status' = [status EXCEPT ![a] = new_status]
       ELSE UNCHANGED status
    /\ UNCHANGED <<overall, responses, themeScores, jobs, queue, exec, cache, now,
                   runs, lastAttempt>>
    /\ Quiet

\* variant: an assessment already scored may be scored again
CanScoreOrScored(st) == st \in Scorable \cup {"scored"}

\* the status check of trigger_scoring
CanScore(st) == st \in Scorable

\* creates the job row and dispatches the task, or rejects
Trigger(op, a, job_type, allowed) ==
    /\ IF allowed
       THEN \E j \in FreeJobs :
              /\ \A k \in FreeJobs : j <= k
              /\ jobs' = [jobs EXCEPT ![j] = NewJob(a, job_type, now)]
              /\ queue' = queue \cup {Message(j, 0)}
              /\ resp' = Reply(op, a, 202)
       ELSE /\ resp' = Reply(op, a, 400)
            /\ UNCHANGED <<jobs, queue>>
    /\ UNCHANGED <<status, overall, responses, themeScores, exec, cache, now, runs,
                   lastAttempt, uncommitted, fn>>

\* POST /assessments/{a}/scores/trigger-scoring
trigger_scoring(a) == Trigger("trigger_scoring", a, "scoring", CanScore(status[a]))

\* POST /assessments/{a}/report/generate
generate_report(a) ==
    Trigger("generate_report", a, "report_generation", status[a] \in Reportable)

(***************************************************************************)
(* HTTP endpoints that read jobs                                           *)
(***************************************************************************)
\* GET /jobs/{job_id}: the status the reply carries is the row's, as persisted
get_job_status(j) == jobs[j].status

\* the rows get_active_report_job selects from
ActiveReportJobs(a) ==
    {j \in DOMAIN jobs : /\ jobs[j].a = a
                         /\ jobs[j].job_type = "report_generation"
                         /\ jobs[j].status \in {"queued", "in_progress"}}

\* GET /assessments/{a}/report/active-job: the newest such row; one created more
\* than STALE_MINUTES ago is marked failed and the reply is empty
get_active_report_job(a) ==
    /\ ActiveReportJobs(a) # {}
    /\ \E j \in ActiveReportJobs(a) :
         /\ \A k \in ActiveReportJobs(a) : jobs[k].created_at <= jobs[j].created_at
         /\ IF jobs[j].created_at < now - STALE_MINUTES
            THEN jobs' = [jobs EXCEPT ![j] =
                            [@ EXCEPT !.status = "failed",
                                      !.error_message = Some("Job timed out"),
                                      !.completed_at = Some(now)]]
            ELSE UNCHANGED jobs
    /\ UNCHANGED <<status, overall, responses, themeScores, queue, exec, cache, now,
                   runs, lastAttempt>>
    /\ Quiet

Tick ==
    /\ now + TickMinutes <= MaxTime
    /\ now' = now + TickMinutes
    /\ UNCHANGED <<status, overall, responses, themeScores, jobs, queue, exec, cache,
                   runs, lastAttempt>>
    /\ Quiet

(***************************************************************************)
(* Celery worker: one task at a time per process, acknowledged late        *)
(***************************************************************************)
JobOf(w) == exec[w].job
AssessmentOf(w) == jobs[exec[w].job].a

Take(w) ==
    /\ exec[w].pc = "idle"
    /\ \E m \in queue :
         /\ queue' = queue \ {m}
         /\ exec' = [exec EXCEPT ![w] =
                       [Idle EXCEPT !.pc = "start", !.job = m.job,
                                    !.delivery = m.delivery]]
    /\ UNCHANGED <<status, overall, responses, themeScores, jobs, cache, now, runs,
                   lastAttempt>>
    /\ Quiet

\* _update_job_status(job_id, "processing", progress=0.1); its select does not
\* find a row that the inserting transaction has not committed
TaskStart(w) ==
    /\ exec[w].pc = "start"
    /\ jobs' = [jobs EXCEPT ![JobOf(w)] =
                  IF JobOf(w) \in uncommitted THEN @
                  ELSE update_job_status(@, "processing", None, None, Some(10), now)]
    /\ exec' = [exec EXCEPT ![w].pc = "body"]
    /\ UNCHANGED <<status, overall, responses, themeScores, queue, cache, now, runs,
                   lastAttempt>>
    /\ Quiet

ScoringResult(ov, scored, skipped, tss) ==
    [kind |-> "scoring", overall_score |-> ov, items_scored |-> scored,
     items_skipped |-> skipped, theme_scores |-> Visible(tss)]

ReportResult ==
    [kind |-> "report", overall_score |-> None, items_scored |-> 0,
     items_skipped |-> 0, theme_scores |-> {}]

\* uq_theme_score: at most one row per (assessment, theme)
UniqueOk(table) ==
    \A x, y \in table : (x.a = y.a /\ x.theme = y.theme) => x = y

\* what a committed run leaves in the history
ValuesOf(rows) == [i \in Items |-> [exists |-> rows[i].exists, value |-> rows[i].value]]

RunRecord(w, a, rows, calls, tss, ov) ==
    [id |-> RunId(w), worker |-> w, a |-> a, values |-> ValuesOf(rows),
     scores |-> [i \in Items |-> rows[i].ai_score], calls |-> calls,
     overall_score |-> ov, theme_scores |-> Visible(tss)]

Remember(r) == IF Len(runs) = 0 THEN <<r>> ELSE <<runs[Len(runs)], r>>

Attempts(outcome) ==
    [i \in Items |-> IF outcome[i] = "untouched" THEN lastAttempt[i] ELSE outcome[i]]

\* the scoring task's session, in one step: score every response, aggregate,
\* mark the assessment scored and commit; or raise and roll back
ScoringBody(w) ==
    /\ exec[w].pc = "body"
    /\ jobs[JobOf(w)].job_type = "scoring"
    /\ \E answers \in AnswerChoices :
         LET a == AssessmentOf(w)
             sl == ScoreLoop(responses[a], cache[w], answers, now)
             tss == NewThemeScores(a, sl.rows, RunId(w))
             table == DeleteThemeScores(themeScores, a) \cup tss
             ov == OverallScore(tss)
         IN /\ cache' = [cache EXCEPT ![w] = sl.cache]
            /\ IF sl.raised \/ ~UniqueOk(table)
               THEN /\ exec' = [exec EXCEPT ![w].pc = "finish", ![w].raised = TRUE,
                                             ![w].error = "AttributeError"]
                    /\ UNCHANGED <<status, overall, responses, themeScores, runs,
                                   lastAttempt>>
               ELSE /\ responses' = [responses EXCEPT ![a] = sl.rows]
                    /\ themeScores' = table
                    /\ overall' = [overall EXCEPT ![a] = ov]
                    /\ status' = [status EXCEPT ![a] = "scored"]
                    /\ runs' = Remember(RunRecord(w, a, sl.rows, sl.calls, tss, ov))
                    /\ lastAttempt' = Attempts(sl.outcome)
                    /\ exec' = [exec EXCEPT
                                  ![w].pc = "finish",
                                  ![w].result =
                                     Some(ScoringResult(ov, sl.scored, sl.skipped, tss))]
    /\ UNCHANGED <<jobs, queue, now>>
    /\ Quiet

\* the report task's session: the report pipeline returns or raises
ReportBody(w) ==
    /\ exec[w].pc = "body"
    /\ jobs[JobOf(w)].job_type = "report_generation"
    /\ \E returned \in BOOLEAN :
         IF returned
         THEN /\ status' = [status EXCEPT ![AssessmentOf(w)] = "report_generated"]
              /\ exec' = [exec EXCEPT ![w].pc = "finish",
                                      ![w].result = Some(ReportResult)]
         ELSE /\ exec' = [exec EXCEPT ![w].pc = "finish", ![w].raised = TRUE,
                                       ![w].error = "ReportError"]
              /\ UNCHANGED status
    /\ UNCHANGED <<overall, responses, themeScores, jobs, queue, cache, now, runs,
                   lastAttempt>>
    /\ Quiet

\* _update_job_status(job_id, "completed", ...) or (job_id, "failed", ...)
TaskFinish(w) ==
    /\ exec[w].pc = "finish"
    /\ jobs' = [jobs EXCEPT ![JobOf(w)] =
                  IF JobOf(w) \in uncommitted THEN @
                  ELSE IF exec[w].raised
                  THEN update_job_status(@, "failed", None, Some(exec[w].error), None, now)
                  ELSE update_job_status(@, "completed", exec[w].result, None,
                                         Some(100), now)]
    /\ exec' = [exec EXCEPT ![w].pc = "done"]
    /\ UNCHANGED <<status, overall, responses, themeScores, queue, cache, now, runs,
                   lastAttempt>>
    /\ Quiet

\* the task returned (or raised): the message is acknowledged
Ack(w) ==
    /\ exec[w].pc = "done"
    /\ exec' = [exec EXCEPT ![w] = Idle]
    /\ UNCHANGED <<status, overall, responses, themeScores, jobs, queue, cache, now,
                   runs, lastAttempt>>
    /\ Quiet

\* task_acks_late: a message not yet acknowledged when its worker process is
\* killed goes back to the queue; the process's cache is gone with it
WorkerLost(w) ==
    /\ exec[w].pc # "idle"
    /\ ~exec[w].restored
    /\ exec[w].delivery < MaxRedeliveries
    /\ queue' = queue \cup {Message(exec[w].job, exec[w].delivery + 1)}
    /\ exec' = [exec EXCEPT ![w] = Idle]
    /\ cache' = [cache EXCEPT ![w] = <<>>]
    /\ UNCHANGED <<status, overall, responses, themeScores, jobs, now, runs,
                   lastAttempt>>
    /\ Quiet

\* task_acks_late: the broker restores a message left unacknowledged too long
\* (connection reset, visibility timeout) while the worker goes on with the task
Redeliver(w) ==
    /\ exec[w].pc # "idle"
    /\ ~exec[w].restored
    /\ exec[w].delivery < MaxRedeliveries
    /\ queue' = queue \cup {Message(exec[w].job, exec[w].delivery + 1)}
    /\ exec' = [exec EXCEPT ![w].restored = TRUE]
    /\ UNCHANGED <<status, overall, responses, themeScores, jobs, cache, now, runs,
                   lastAttempt>>
    /\ Quiet

(***************************************************************************)
(* The system: endpoints, workers and the clock                            *)
(***************************************************************************)
Next ==
    \/ \E i \in Items : \E v \in PayloadsFor(i) : save_response("a1", i, v)
    \/ submit_assessment("a1")
    \/ \E st \in AllStatuses : update_status("a1", st)
    \/ \E a \in Assessments : trigger_scoring(a)
    \/ generate_report("a1")
    \/ \E a \in Assessments : get_active_report_job(a)
    \/ \E w \in Workers : Take(w)
    \/ \E w \in Workers : TaskStart(w)
    \/ \E w \in Workers : ScoringBody(w)
    \/ \E w \in Workers : ReportBody(w)
    \/ \E w \in Workers : TaskFinish(w)
    \/ \E w \in Workers : Ack(w)
    \/ \E w \in Workers : WorkerLost(w)
    \/ \E w \in Workers : Redeliver(w)
    \/ Tick

Spec == Init /\ [][Next]_vars

(***************************************************************************)
(* The scoring task's session statement by statement, for two worker       *)
(* processes on one database (READ COMMITTED): what a session flushed is    *)
(* seen by others only after its commit.                                   *)
(***************************************************************************)
ConcJobs == 2

Session(w) == exec[w].sess

\* orchestrator: select the responses of the assessment into the session
Load(w) ==
    /\ exec[w].pc = "body"
    /\ jobs[JobOf(w)].job_type = "scoring"
    /\ exec' = [exec EXCEPT ![w].pc = "score",
                            ![w].sess = [NoSession EXCEPT
                                           !.loaded = responses[AssessmentOf(w)],
                                           !.local = responses[AssessmentOf(w)]]]
    /\ UNCHANGED <<status, overall, responses, themeScores, jobs, queue, cache, now,
                   runs, lastAttempt>>
    /\ Quiet

\* orchestrator: the loop over the loaded responses; a scorer that raises
\* ends the task's try block (rollback)
ScoreAll(w) ==
    /\ exec[w].pc = "score"
    /\ \E answers \in AnswerChoices :
         LET sl == ScoreLoop(Session(w).loaded, cache[w], answers, now)
         IN /\ cache' = [cache EXCEPT ![w] = sl.cache]
            /\ IF sl.raised
               THEN exec' = [exec EXCEPT ![w].pc = "finish", ![w].raised = TRUE,
                                         ![w].error = "AttributeError",
                                         ![w].sess = NoSession]
               ELSE exec' = [exec EXCEPT
                               ![w].pc = "flush",
                               ![w].sess = [@ EXCEPT !.local = sl.rows,
                                                     !.outcome = sl.outcome,
                                                     !.calls = sl.calls,
                                                     !.scored = sl.scored,
                                                     !.skipped = sl.skipped]]
    /\ UNCHANGED <<status, overall, responses, themeScores, jobs, queue, now, runs,
                   lastAttempt>>
    /\ Quiet

\* the session's UPDATEs applied to the rows as they are now: each sets the
\* changed columns of one row
ApplyUpdates(committed, sess) ==
    [i \in Items |->
        [c \in DOMAIN committed[i] |->
            IF c \in DirtyCols(sess, i) THEN sess.local[i][c] ELSE committed[i][c]]]

\* variant: every flushed statement is committed at once
VisibleAtOnce(committed, sess) == ApplyUpdates(committed, sess)

\* what other sessions see of the response rows after this session's flush
VisibleAfterFlush(committed, sess) == committed

\* orchestrator: db.flush() sends the UPDATEs of the changed rows; each waits
\* while another transaction holds the row
FlushScores(w) ==
    /\ exec[w].pc = "flush"
    /\ \A i \in DirtyRows(Session(w)) : ~RowLocked(AssessmentOf(w), i)
    /\ responses' = [responses EXCEPT ![AssessmentOf(w)] =
                       VisibleAfterFlush(@, Session(w))]
    /\ exec' = [exec EXCEPT ![w].pc = "delete"]
    /\ UNCHANGED <<status, overall, themeScores, jobs, queue, cache, now, runs,
                   lastAttempt>>
    /\ Quiet

\* theme score rows deleted or inserted by another open transaction
DeletedByOthers(w) == UNION {exec[v].sess.deleted : v \in Workers \ {w}}
InsertedByOthers(w) == UNION {exec[v].sess.inserted : v \in Workers \ {w}}

\* calculate_theme_scores: the DELETE removes the committed rows of the
\* assessment; it waits while another transaction holds one of them
DeleteTS(w) ==
    /\ exec[w].pc = "delete"
    /\ ThemeScoresOf(themeScores, AssessmentOf(w)) \cap DeletedByOthers(w) = {}
    /\ exec' = [exec EXCEPT
                  ![w].pc = "aggregate",
                  ![w].sess.deleted = ThemeScoresOf(themeScores, AssessmentOf(w))]
    /\ UNCHANGED <<status, overall, responses, themeScores, jobs, queue, cache, now,
                   runs, lastAttempt>>
    /\ Quiet

\* calculate_theme_scores: one row per theme from the session's responses, the
\* overall score, then db.flush(): an INSERT waits for an uncommitted row with
\* its key and fails on a committed one (uq_theme_score)
Aggregate(w) ==
    /\ exec[w].pc = "aggregate"
    /\ \A ts \in InsertedByOthers(w) : ts.a # AssessmentOf(w)
    /\ LET a == AssessmentOf(w)
           tss == NewThemeScores(a, Session(w).local, RunId(w))
           table == (themeScores \ Session(w).deleted) \cup tss
       IN IF UniqueOk(table)
          THEN exec' = [exec EXCEPT ![w].pc = "commit",
                                    ![w].sess.inserted = tss,
                                    ![w].sess.overall_score = OverallScore(tss)]
          ELSE exec' = [exec EXCEPT ![w].pc = "finish", ![w].raised = TRUE,
                                    ![w].error = "IntegrityError",
                                    ![w].sess = NoSession]
    /\ UNCHANGED <<status, overall, responses, themeScores, jobs, queue, cache, now,
                   runs, lastAttempt>>
    /\ Quiet

\* variant: the task returns its result and nothing is committed
CommitNothing(w) ==
    /\ exec[w].pc = "commit"
    /\ exec' = [exec EXCEPT
                  ![w].pc = "finish",
                  ![w].sess = NoSession,
                  ![w].result = Some(ScoringResult(Session(w).overall_score,
                                                   Session(w).scored, Session(w).skipped,
                                                   Session(w).inserted))]
    /\ UNCHANGED <<status, overall, responses, themeScores, jobs, queue, cache, now,
                   runs, lastAttempt>>
    /\ Quiet

\* task: assessment.status = "scored"; session.commit()
Commit(w) ==
    /\ exec[w].pc = "commit"
    /\ LET a == AssessmentOf(w)
           sess == Session(w)
       IN /\ responses' = [responses EXCEPT ![a] = ApplyUpdates(@, sess)]
          /\ themeScores' = (themeScores \ sess.deleted) \cup sess.inserted
          /\ overall' = [overall EXCEPT ![a] = sess.overall_score]
          /\ status' = [status EXCEPT ![a] = "scored"]
          /\ runs' = Remember(RunRecord(w, a, sess.local, sess.calls, sess.inserted,
                                        sess.overall_score))
          /\ lastAttempt' = Attempts(sess.outcome)
          /\ exec' = [exec EXCEPT
                        ![w].pc = "finish",
                        ![w].sess = NoSession,
                        ![w].result = Some(ScoringResult(sess.overall_score,
                                                         sess.scored, sess.skipped,
                                                         sess.inserted))]
    /\ UNCHANGED <<jobs, queue, cache, now>>
    /\ Quiet

InitialAnswers ==
    {[i \in Items |-> IF i = "TL01" THEN NewRow(v) ELSE g] :
        v \in PayloadsFor("TL01"), g \in {NoRow, NewRow(Dict(JAbsent, Essay))}}

\* two scoring jobs were triggered for a1 while it is under review
InitConc ==
    /\ status = [a \in Assessments |-> IF a = "a1" THEN "under_review" ELSE "scored"]
    /\ \E rows \in InitialAnswers :
         responses = [a \in Assessments |-> IF a = "a1" THEN rows ELSE A2Rows]
    /\ themeScores = A2ThemeScores
    /\ overall = [a \in Assessments |->
                    IF a = "a1" THEN None ELSE OverallScore(A2ThemeScores)]
    /\ jobs = [j \in 1..ConcJobs |-> NewJob("a1", "scoring", 0)]
    /\ queue = {Message(j, 0) : j \in 1..ConcJobs}
    /\ exec = [w \in Workers |-> Idle]
    /\ cache = [w \in Workers |-> <<>>]
    /\ now = 0
    /\ resp = NoReply
    /\ runs = <<>>
    /\ lastAttempt = [i \in Items |-> "untouched"]
    /\ uncommitted = {}
    /\ fn = NoCall

NextConc ==
    \/ \E i \in Items : \E v \in PayloadsFor(i) : save_response("a1", i, v)
    \/ \E w \in Workers : Take(w)
    \/ \E w \in Workers : TaskStart(w)
    \/ \E w \in Workers : Load(w)
    \/ \E w \in Workers : ScoreAll(w)
    \/ \E w \in Workers : FlushScores(w)
    \/ \E w \in Workers : DeleteTS(w)
    \/ \E w \in Workers : Aggregate(w)
    \/ \E w \in Workers : Commit(w)
    \/ \E w \in Workers : TaskFinish(w)
    \/ \E w \in Workers : Ack(w)

SpecConc == InitConc /\ [][NextConc]_vars

(***************************************************************************)
(* The library functions on their own: the aggregator's arithmetic for one *)
(* theme, the client, the scorers and the consistency checker, each        *)
(* applied to arguments drawn from bounded sets.                           *)
(***************************************************************************)
MaxItems == 3
\* the longest series of arbitrary values, and the longest flat series with
\* one step, given to calculate_trend
MaxSeries == 3
MaxFlat == 12

OnlyFn ==
    UNCHANGED <<status, overall, responses, themeScores, jobs, queue, exec, cache, now,
                resp, runs, lastAttempt, uncommitted>>

\* item weights (tenths)
ItemWeights == {5, 10, 20}

\* if resp.ai_score is not None
ScoredOf(items) == {k \in DOMAIN items : items[k].ai_score # None}

\* a theme row as stored (slug, weight column in hundredths) and the items of
\* the theme with their responses (weight, ai_score)
ThemeScoreCalls ==
    LET ThemeRows == [slug : {"teaching-learning", "governance", "research"},
                      weight : {10, 20, 25}]
        ThemeItems == [1..MaxItems ->
                          [weight : ItemWeights,
                           ai_score : {None, Some(0), Some(5000), Some(10000)}]]
    IN {[op |-> "theme_score", done |-> FALSE, theme |-> th, items |-> its] :
           th \in ThemeRows, its \in ThemeItems}

\* the body of the aggregator's loop for one theme
EvalThemeScore ==
    /\ fn.op = "theme_score" /\ ~fn.done
    /\ LET S == ScoredOf(fn.items)
           normalised == WeightedMean(S, [k \in S |-> The(fn.items[k].ai_score)],
                                      [k \in S |-> fn.items[k].weight])
       IN fn' = [op |-> "theme_score", done |-> TRUE, theme |-> fn.theme,
                 items |-> fn.items, normalised_score |-> normalised,
                 weighted_score |-> Weighted(normalised, fn.theme.slug)]
    /\ OnlyFn

\* the client called on its own: the cache is empty, or holds a completion
\* for the key (fresh, or stored CACHE_TTL ago) or one for another key
ClientCalls ==
    LET key == CacheKey("GV05", Essay)
        other == CacheKey("GV05", ShortText)
        Stored == [result |-> Completion(TRUE, 55, 55), timestamp |-> 0]
        Caches == {<<>>, set_cached(<<>>, key, Stored.result, 0),
                   set_cached(<<>>, other, Stored.result, 0)}
    IN {[op |-> "call_claude", done |-> FALSE, cache |-> c, key |-> key,
         answers |-> ans, now |-> t] :
           c \in Caches, ans \in [1..4 -> {Failure, Completion(TRUE, 80, 80)}],
           t \in {0, CACHE_TTL}}

EvalCallClaude ==
    /\ fn.op = "call_claude" /\ ~fn.done
    /\ fn' = [op |-> "call_claude", done |-> TRUE, cache |-> fn.cache, key |-> fn.key,
              answers |-> fn.answers, now |-> fn.now,
              out |-> call_claude(fn.cache, fn.key, fn.answers, fn.now)]
    /\ OnlyFn

\* a scorer called on its own with a value of its own shape, of another
\* scorer's shape, or of no scorer's shape
ScorerCalls ==
    LET A == JAbsent
        Good80 == Completion(TRUE, 80, 80)
        Values ==
            {NoneValue, Obj(A, A, A, A, A),
             Obj(JNum(7), A, A, A, A), Obj(Essay, A, A, A, A),
             Obj(JNum(0 - 1), A, A, A, A), Obj(JNum(0), A, A, A, A),
             Obj(JNum(5), A, A, A, A), Obj(JNum(15), A, A, A, A),
             Obj(JNum(25), A, A, A, A), Obj(JNum(100), A, A, A, A),
             Obj(A, Essay, A, A, A), Obj(A, ShortText, A, A, A),
             Obj(A, JNum(12345), A, A, A),
             Obj(A, A, JBool(TRUE), JStr(5, 300), A), Obj(A, A, JBool(FALSE), A, A),
             Obj(A, A, JBool(TRUE), A, A), Obj(A, A, JBool(TRUE), JStr(8, 600), A),
             Obj(A, A, JBool(TRUE), JStr(9, 30), A),
             Obj(A, A, JBool(FALSE), JStr(8, 600), A),
             Obj(A, A, JBool(FALSE), JStr(5, 300), A),
             Obj(A, A, JBool(FALSE), JStr(9, 30), A),
             Obj(A, A, JStr(6, 5), A, A),
             Obj(A, A, A, A, Years(<<JNum(100), JNum(120),
                                     Gendered(JNum(70), JNum(80))>>)),
             Obj(A, A, A, A, Years(<<JNum(200), JNum(100)>>)),
             Obj(A, A, A, A, Years(<<JNum(100), JNum(100)>>)),
             Obj(A, A, A, A, Years(<<JNum(100), JStr(7, 3)>>)),
             Obj(A, A, A, A, Years(<<>>)), Obj(A, A, A, A, Years(<<JStr(7, 3)>>)),
             Obj(A, A, A, A, Years(<<JNum(100)>>)),
             Obj(A, A, A, A, JList(3, 15)),
             Scalar(JList(3, 30)), Scalar(JList(0, 2)), Scalar(Essay)}
        Rubrics(scorer) ==
            CASE scorer = "score_numeric" ->
                    {ItemCfg("TL01").rubric,
                     NumericRubric(<<Range(Some(15), Some(25), 75),
                                     Range(Some(0), Some(15), 100)>>),
                     NumericRubric(<<Range(None, Some(0), 0), Range(Some(0), None, 50)>>),
                     NumericRubric(<<Range(Some(0), Some(10), 10),
                                     Range(Some(5), Some(25), 20)>>),
                     NumericRubric(<<>>)}
              [] scorer = "score_binary" ->
                    {BinaryRubric("binary_with_evidence"), BinaryRubric("binary")}
              [] scorer = "score_timeseries" ->
                    {TrendRubric("increasing"), TrendRubric("decreasing")}
              [] OTHER -> {TextRubric}
        Caches(scorer, v) ==
            IF scorer # "score_text" \/ v.ty # "dict" THEN {<<>>}
            ELSE {<<>>, set_cached(<<>>, CacheKey("GV05", TextOf(v)), Good80, 0),
                  set_cached(<<>>, CacheKey("GV05", TextOf(v)), Garbage, 0)}
        Answers(scorer) ==
            IF scorer # "score_text" THEN {Silent}
            ELSE ExtBehaviours \cup
                 {[k \in 1..4 |-> c] : c \in {Completion(TRUE, 150, 0),
                                              Completion(TRUE, 0, 60),
                                              Completion(TRUE, 0, 0), Failure}}
    IN UNION {UNION {{[op |-> "scorer", done |-> FALSE, scorer |-> sc, value |-> v,
                       rubric |-> rb, cache |-> c, answers |-> ans] :
                         rb \in Rubrics(sc), c \in Caches(sc, v), ans \in Answers(sc)}
                     : v \in Values}
              : sc \in {"score_numeric", "score_binary", "score_text",
                        "score_timeseries"}}

EvalScorer ==
    /\ fn.op = "scorer" /\ ~fn.done
    /\ fn' = [op |-> "scorer", done |-> TRUE, scorer |-> fn.scorer, value |-> fn.value,
              rubric |-> fn.rubric, cache |-> fn.cache, answers |-> fn.answers,
              out |-> ApplyScorer(fn.scorer, fn.value, fn.rubric, "GV05", fn.cache,
                                  fn.answers, 0)]
    /\ OnlyFn

\* the checker called on its own: staff counts, a retention rate and a
\* flying-faculty count that are missing, numbers, a string or not a dict
ConsistencyCalls ==
    LET V(n) == Dict(JNum(n), JAbsent)
        Missing == Dict(JAbsent, JAbsent)
        Responses ==
            {[c \in {"TL07", "TL06", "TL09", "TL04", "SE04"} |->
                 CASE c = "TL07" -> tl07 [] c = "TL06" -> tl06 [] c = "TL09" -> tl09
                   [] c = "TL04" -> tl04 [] OTHER -> Missing] :
               tl07 \in {Missing, V(0), V(5), V(50), Dict(ShortText, JAbsent)},
               tl06 \in {Missing, V(0), V(40), Scalar(JNum(40))},
               tl09 \in {Missing, V(60)},
               tl04 \in {Missing, V(0), V(150)}}
        Bad == IssuesCompletion(FALSE, "absent", 0)
        Replies == {Failure, Bad, IssuesCompletion(TRUE, "absent", 0),
                    IssuesCompletion(TRUE, "list", 0), IssuesCompletion(TRUE, "list", 2),
                    IssuesCompletion(TRUE, "other", 0)}
    IN {[op |-> "check_consistency", done |-> FALSE, r |-> r, use_ai |-> u,
         answers |-> ans] :
           r \in Responses, u \in BOOLEAN,
           ans \in {[k \in 1..4 |-> c] : c \in Replies} \cup
                   {<<Failure, Failure, IssuesCompletion(TRUE, "list", 2), Bad>>}}

EvalConsistency ==
    /\ fn.op = "check_consistency" /\ ~fn.done
    /\ fn' = [op |-> "check_consistency", done |-> TRUE, r |-> fn.r,
              use_ai |-> fn.use_ai, answers |-> fn.answers,
              out |-> check_consistency(fn.r, fn.use_ai, <<>>, fn.answers, 0)]
    /\ OnlyFn

\* calculate_trend on a series and on the same series times a constant: short
\* series of counts and of signed values, and flat series of zeros with one
\* step from -1 to 1 in the middle
TrendCalls ==
    LET Short == UNION {[1..n -> {0 - 2, 0, 1, 100, 101}] : n \in 2..MaxSeries}
        Flat == {[k \in 1..n |-> IF k = n \div 2 THEN 0 - 1
                                 ELSE IF k = n \div 2 + 1 THEN 1 ELSE 0] :
                    n \in 2..MaxFlat}
    IN {[op |-> "calculate_trend", done |-> FALSE, values |-> vs, c |-> c] :
           vs \in Short \cup Flat, c \in {2, 10, 100}}

EvalTrend ==
    /\ fn.op = "calculate_trend" /\ ~fn.done
    /\ fn' = [op |-> "calculate_trend", done |-> TRUE, values |-> fn.values,
              c |-> fn.c,
              out |-> [direction |-> calculate_trend(fn.values),
                       scaled |-> calculate_trend([k \in DOMAIN fn.values |->
                                                      fn.c * fn.values[k]])]]
    /\ OnlyFn

\* the risk engine on metrics that are absent, in range, out of range or not
\* numbers
RiskCalls ==
    LET A == JAbsent
    IN {[op |-> "compute_risk_score", done |-> FALSE,
         metrics |-> [financial |-> f, enrollment_trend |-> e, retention_rate |-> r,
                      ssr |-> q, governance |-> g, phd_pct |-> d]] :
           f \in {A, JNum(30), JNum(0), JNum(50), JNum(0 - 40), ShortText},
           e \in {A, Trend("decreasing"), Trend("increasing")},
           r \in {A, JNum(80), JNum(35), JNum(0), JNum(0 - 70)},
           q \in {A, JNum(50), JNum(95)},
           g \in {A, JNum(25), JNum(0)},
           d \in {A, JNum(10), JNum(0)}}

EvalRisk ==
    /\ fn.op = "compute_risk_score" /\ ~fn.done
    /\ fn' = [op |-> "compute_risk_score", done |-> TRUE, metrics |-> fn.metrics,
              out |-> compute_risk_score(fn.metrics)]
    /\ OnlyFn

Calls ==
    ThemeScoreCalls \cup ClientCalls \cup ScorerCalls \cup ConsistencyCalls
        \cup TrendCalls \cup RiskCalls

InitFn == Start /\ fn \in Calls

NextFn ==
    \/ EvalThemeScore
    \/ EvalCallClaude
    \/ EvalScorer
    \/ EvalConsistency
    \/ EvalTrend
    \/ EvalRisk

SpecFn == InitFn /\ [][NextFn]_vars

(***************************************************************************)
(* The trigger endpoints with the request's transaction made explicit: the *)
(* handler inserts the job row with flush and dispatches the task; the     *)
(* session dependency commits once the handler has returned.               *)
(***************************************************************************)
\* db.add(job); await db.flush(); task.delay(...); return job
Dispatch(op, a, job_type, allowed) ==
    /\ IF allowed
       THEN \E j \in FreeJobs :
              /\ \A k \in FreeJobs : j <= k
              /\ jobs' = [jobs EXCEPT ![j] = NewJob(a, job_type, now)]
              /\ uncommitted' = uncommitted \cup {j}
              /\ queue' = queue \cup {Message(j, 0)}
              /\ resp' = Reply(op, a, 202)
       ELSE /\ resp' = Reply(op, a, 400)
            /\ UNCHANGED <<jobs, queue, uncommitted>>
    /\ UNCHANGED <<status, overall, responses, themeScores, exec, cache, now, runs,
                   lastAttempt, fn>>

\* the request's session commits: the inserted row becomes visible to others
RequestCommit ==
    /\ \E j \in uncommitted : uncommitted' = uncommitted \ {j}
    /\ resp' = NoReply
    /\ UNCHANGED <<status, overall, responses, themeScores, jobs, queue, exec, cache,
                   now, runs, lastAttempt, fn>>

NextDispatch ==
    \/ \E i \in Items : \E v \in PayloadsFor(i) : save_response("a1", i, v)
    \/ submit_assessment("a1")
    \/ \E a \in Assessments : Dispatch("trigger_scoring", a, "scoring", CanScore(status[a]))
    \/ \E a \in Assessments :
          Dispatch("generate_report", a, "report_generation", status[a] \in Reportable)
    \/ RequestCommit
    \/ \E w \in Workers : Take(w)
    \/ \E w \in Workers : TaskStart(w)
    \/ \E w \in Workers : ScoringBody(w)
    \/ \E w \in Workers : ReportBody(w)
    \/ \E w \in Workers : TaskFinish(w)
    \/ \E w \in Workers : Ack(w)

SpecDispatch == Init /\ [][NextDispatch]_vars

\* the worker pool runs every dispatched task to its end (a message is taken,
\* the task starts, its body returns or raises, the final status is written and
\* the message acknowledged) and every request's session is committed
SpecDispatchLive ==
    /\ SpecDispatch
    /\ WF_vars(RequestCommit)
    /\ \A w \in Workers :
          /\ WF_vars(Take(w)) /\ WF_vars(TaskStart(w))
          /\ []<>(exec[w].pc # "body")
          /\ WF_vars(TaskFinish(w)) /\ WF_vars(Ack(w))

(***************************************************************************)
(* Properties of the job records                                           *)
(***************************************************************************)
\* C1: a job's persisted status only moves queued -> processing ->
\* {completed | failed}: no step takes a job out of completed or failed, and
\* no step returns a job to an earlier status.
C1_StatusOnlyMovesForward ==
    [][\A j \in DOMAIN jobs :
          /\ jobs[j].status \in Terminal => jobs'[j].status = jobs[j].status
          /\ jobs[j].status = "processing" => jobs'[j].status # "queued"]_vars

\* C2: a job whose persisted status is processing and whose start is more
\* than STALE_MINUTES in the past is reported as failed by a read of the job.
C2_StaleProcessingReadAsFailed ==
    \A j \in DOMAIN jobs :
        (/\ jobs[j].status = "processing"
         /\ jobs[j].started_at # None
         /\ now - The(jobs[j].started_at) > STALE_MINUTES)
        => get_job_status(j) = "failed"

\* C5: a scoring run does not end by raising, whatever the answers hold.
C5_RunNeverRaises ==
    \A w \in Workers :
        (exec[w].pc = "finish" /\ jobs[exec[w].job].job_type = "scoring")
        => ~exec[w].raised

\* C6: a step creates a scoring job exactly when it is a trigger on an
\* assessment whose status is submitted or under_review, and then it dispatches
\* exactly that job's task; a trigger in any other status is answered with an
\* error and leaves the job table and the queue as they were.
C6_TriggerIffScorable ==
    [][\A a \in Assessments :
          LET created == {j \in DOMAIN jobs : /\ jobs[j].status = "absent"
                                             /\ jobs'[j].status # "absent"
                                             /\ jobs'[j].job_type = "scoring"
                                             /\ jobs'[j].a = a}
              triggered == resp'.op = "trigger_scoring" /\ resp'.a = a
          IN /\ created # {} => triggered /\ status[a] \in Scorable
             /\ (triggered /\ status[a] \in Scorable) =>
                   /\ resp'.code = 202
                   /\ Cardinality(created) = 1
                   /\ \A j \in created : jobs'[j].status = "queued"
                   /\ queue' \ queue = {Message(j, 0) : j \in created}
             /\ (triggered /\ status[a] \notin Scorable) =>
                   /\ resp'.code = 400
                   /\ jobs' = jobs
                   /\ queue' = queue]_vars

\* a trigger on an assessment already scored by a completed job was refused
C6_RefusedAfterScoring ==
    /\ resp = Reply("trigger_scoring", "a1", 400)
    /\ status["a1"] = "scored"
    /\ \E j \in DOMAIN jobs : jobs[j].job_type = "scoring" /\ jobs[j].status = "completed"

(***************************************************************************)
(* Properties of scoring runs                                              *)
(***************************************************************************)
SameResults(r1, r2) ==
    r1.overall_score = r2.overall_score /\ r1.theme_scores = r2.theme_scores

TwoRunsUnchanged == Len(runs) = 2 /\ runs[1].values = runs[2].values

\* C8 as stated: two runs in sequence over unchanged answers yield the same
\* overall score and the same theme scores, whatever the service answers.
C8_IdempotentForEveryBehaviour ==
    TwoRunsUnchanged => SameResults(runs[1], runs[2])

\* C8: two runs in sequence over unchanged answers yield the same overall
\* score and the same theme scores when the second run executes in the worker
\* process of the first and makes no call to the service (every completion it
\* needs is in that process's cache).
C8_IdempotentWhenServedFromCache ==
    (TwoRunsUnchanged /\ runs[1].worker = runs[2].worker /\ runs[2].calls = 0)
    => SameResults(runs[1], runs[2])

\* a second run over an essay answer was served from the first run's cache
C8_SecondRunFromCache ==
    /\ TwoRunsUnchanged
    /\ runs[1].worker = runs[2].worker
    /\ runs[1].calls > 0
    /\ runs[2].calls = 0
    /\ runs[2].values["GV05"].value = Dict(JAbsent, Essay)
    /\ runs[2].overall_score # None

\* C9: the step that commits a scoring run leaves the assessment with exactly
\* one theme score per theme, every one produced by that run, and leaves the
\* theme scores of every other assessment as they were.
C9_ThemeScoresReplacedWholesale ==
    [][runs' # runs =>
          LET run == runs'[Len(runs')]
              mine == ThemeScoresOf(themeScores', run.a)
          IN /\ \A t \in Themes : Cardinality({ts \in mine : ts.theme = t}) = 1
             /\ \A ts \in mine : ts.theme \in Themes /\ ts.run = run.id
             /\ \A b \in Assessments \ {run.a} :
                   ThemeScoresOf(themeScores', b) = ThemeScoresOf(themeScores, b)]_vars

\* a second run replaced the theme scores of the first; the other assessment
\* still has its own
C9_SecondRunReplaced ==
    /\ Len(runs) = 2
    /\ runs[1].id # runs[2].id
    /\ {ts.run : ts \in ThemeScoresOf(themeScores, "a1")} = {runs[2].id}
    /\ ThemeScoresOf(themeScores, "a2") = A2ThemeScores

\* C10: after a scoring run the overall score is null exactly when every
\* theme score of the assessment is null; otherwise it is the sum of the
\* non-null weighted theme scores.
C10_OverallNullIffAllThemesNull ==
    Len(runs) > 0 =>
        LET a == runs[Len(runs)].a
            tss == ThemeScoresOf(themeScores, a)
            scored == {ts \in tss : ts.normalised_score # None}
        IN /\ overall[a] = None <=> scored = {}
           /\ overall[a] # None =>
                 The(overall[a]) =
                    SumOver(scored, [ts \in scored |-> The(ts.weighted_score)])

(***************************************************************************)
(* Properties of concurrent scoring sessions                               *)
(***************************************************************************)
ScoresIn(table, a) == [i \in Items |-> [c \in ScoreCols |-> table[a][i][c]]]

\* C3: of two scoring jobs issued together for one assessment neither fails
\* because of the other, once both are done the answer scores and the theme
\* scores are those of the run that committed last, and there is never more
\* than one theme score per (assessment, theme).
C3_BothCompleteLastCommitWins ==
    /\ \A j \in DOMAIN jobs : jobs[j].error_message # Some("IntegrityError")
    /\ UniqueOk(themeScores)
    /\ (Len(runs) = 2 /\ \A j \in DOMAIN jobs : jobs[j].status = "completed") =>
          /\ \A i \in Items : responses["a1"][i].ai_score = runs[2].scores[i]
          /\ Visible(ThemeScoresOf(themeScores, "a1")) = runs[2].theme_scores

\* C4: an answer whose most recent scoring attempt produced no score has a
\* null score.
C4_NoScoreLeavesNull ==
    \A i \in Items :
        lastAttempt[i] = "noscore" => responses["a1"][i].ai_score = None

C18_EveryAnswerCountedOnce ==
    [][runs' # runs =>
          \A w \in Workers :
              (exec[w].pc # "finish" /\ exec'[w].pc = "finish") =>
                  LET res == The(exec'[w].result)
                      a == runs'[Len(runs')].a
                      processed == {i \in Items : responses'[a][i].exists}
                      scored == {i \in processed : lastAttempt'[i] = "scored"}
                  IN /\ res.items_scored = Cardinality(scored)
                     /\ res.items_skipped = Cardinality(processed \ scored)]_vars

\* C19: every change of an assessment's status, by any operation, is one of
\* the valid transitions draft -> submitted -> under_review -> scored ->
\* report_generated: no stage is skipped and none is returned to.
C19_EveryStatusChangeValid ==
    [][\A a \in Assessments :
          status'[a] # status[a] => status'[a] \in VALID_TRANSITIONS(status[a])]_vars

(***************************************************************************)
(* Properties of the aggregator's arithmetic                               *)
(***************************************************************************)
\* C11 as stated: a theme's normalised score is exactly the sum of (score x
\* item weight) over its scored answers divided by the sum of their weights,
\* and null when no answer is scored.
C11_NormalisedIsExactMean ==
    (fn.op = "theme_score" /\ fn.done) =>
        LET S == ScoredOf(fn.items)
            WeightSum == SumOver(S, [k \in S |-> fn.items[k].weight])
            ScoreSum == SumOver(S, [k \in S |-> The(fn.items[k].ai_score)
                                                   * fn.items[k].weight])
        IN /\ S = {} => fn.normalised_score = None
           /\ S # {} => /\ fn.normalised_score # None
                        /\ The(fn.normalised_score) * WeightSum = ScoreSum

\* C11: a theme's normalised score is the sum of (score x item weight) over
\* its scored answers divided by the sum of their weights, rounded to two
\* decimal places (ties to even); it is null when no answer is scored and
\* does not depend on the weights of unscored items.
C11_NormalisedIsRoundedMean ==
    (fn.op = "theme_score" /\ fn.done) =>
        LET S == ScoredOf(fn.items)
            WeightSum == SumOver(S, [k \in S |-> fn.items[k].weight])
            ScoreSum == SumOver(S, [k \in S |-> The(fn.items[k].ai_score)
                                                   * fn.items[k].weight])
        IN /\ S = {} => fn.normalised_score = None
           /\ S # {} => fn.normalised_score = Some(RoundHalfEven(ScoreSum, WeightSum))
           /\ \A w \in ItemWeights : \A k \in DOMAIN fn.items \ S :
                 LET other == [fn.items EXCEPT ![k].weight = w]
                     T == ScoredOf(other)
                 IN WeightedMean(T, [m \in T |-> The(other[m].ai_score)],
                                 [m \in T |-> other[m].weight])
                       = fn.normalised_score

\* weights 1, 1, 2 with scores 100, 50 and none give 75
C11_WorkedExample ==
    /\ fn.op = "theme_score" /\ fn.done
    /\ [k \in 1..3 |-> fn.items[k].weight] = <<10, 10, 20>>
    /\ [k \in 1..3 |-> fn.items[k].ai_score] = <<Some(10000), Some(5000), None>>
    /\ fn.normalised_score = Some(7500)

\* C12: a theme score's weighted score is its normalised score multiplied by
\* the weight stored on the theme (to the precision of the stored value), for
\* any weight and any slug, and is null exactly when the normalised score is.
C12_WeightedUsesStoredThemeWeight ==
    (fn.op = "theme_score" /\ fn.done) =>
        /\ fn.weighted_score = None <=> fn.normalised_score = None
        /\ fn.normalised_score # None =>
              LET exact == The(fn.normalised_score) * fn.theme.weight
                  stored == The(fn.weighted_score) * 100
              IN exact - stored <= 50 /\ stored - exact <= 50

(***************************************************************************)
(* Properties of the Text-Evaluator client and of the text scorer          *)
(***************************************************************************)
\* C14: on a cache miss the client makes at most MAX_ATTEMPTS calls to the
\* service, stops at the first that succeeds, and raises only after the third
\* has failed; on a hit it makes no call and returns the stored completion; a
\* call that raises adds no cache entry and changes none (the lookup only
\* drops an entry it found expired).
C14_BoundedRetryAndCache ==
    (fn.op = "call_claude" /\ fn.done) =>
        LET hit == /\ fn.key \in DOMAIN fn.cache
                   /\ fn.now - fn.cache[fn.key].timestamp < CACHE_TTL
            failed == {k \in 1..Len(fn.answers) : ~fn.answers[k].ok}
        IN /\ hit => /\ fn.out.calls = 0 /\ ~fn.out.raised
                     /\ fn.out.result = fn.cache[fn.key].result
                     /\ fn.out.cache = fn.cache
           /\ ~hit => /\ fn.out.calls \in 1..3
                      /\ fn.out.raised <=> (1..3 \subseteq failed)
                      /\ fn.out.raised => fn.out.calls = 3
                      /\ ~fn.out.raised =>
                            /\ fn.out.result = fn.answers[fn.out.calls]
                            /\ fn.out.result.ok
                            /\ 1..(fn.out.calls - 1) \subseteq failed
           /\ fn.out.raised =>
                 \A k \in DOMAIN fn.out.cache :
                     k \in DOMAIN fn.cache /\ fn.out.cache[k] = fn.cache[k]

\* three calls failed and the client raised without trying a fourth, which
\* would have succeeded; the cache still holds the other key's entry
C14_RaisedAfterThirdFailure ==
    /\ fn.op = "call_claude" /\ fn.done
    /\ fn.out.raised /\ fn.out.calls = 3
    /\ fn.answers[4].ok
    /\ fn.cache # <<>> /\ fn.out.cache = fn.cache

\* C15: the text scorer returns score 0 without calling the client when the
\* answer text is empty or shorter than MIN_TEXT_LEN; for a longer text it
\* returns a null score with a diagnostic feedback whenever the call fails or
\* the completion does not parse, and a non-null score, within 0..100, only
\* from a completion that parsed.
C15_TextScoreNeverFabricated ==
    (fn.op = "scorer" /\ fn.done /\ fn.scorer = "score_text" /\ fn.value.ty = "dict") =>
        LET text == TextOf(fn.value)
            r == fn.out.r
            key == CacheKey("GV05", text)
            hit == key \in DOMAIN fn.cache
            ok == {k \in 1..MAX_ATTEMPTS : fn.answers[k].ok}
            failed == ~hit /\ ok = {}
            used == IF hit THEN fn.cache[key].result
                    ELSE fn.answers[CHOOSE k \in ok : \A m \in ok : k <= m]
        IN /\ (text.ty = "absent" \/ (text.ty = "str" /\ text.len < MIN_TEXT_LEN)) =>
                 /\ r.ret = "dict" /\ r.score = Some(0) /\ r.calls = 0
                 /\ fn.out.cache = fn.cache
           /\ (text.ty = "str" /\ text.len >= MIN_TEXT_LEN) =>
                 /\ r.ret = "dict"
                 /\ (failed \/ ~used.valid) =>
                       r.score = None /\ r.feedback.kind = "scoring_error"
                 /\ r.score # None =>
                       ~failed /\ used.valid /\ The(r.score) \in 0..10000

\* an essay whose completion did not parse has a null score and the diagnostic feedback
C15_UnparsedGivesNullScore ==
    /\ fn.op = "scorer" /\ fn.done /\ fn.scorer = "score_text"
    /\ fn.value.ty = "dict" /\ fn.value.text = Essay
    /\ fn.answers = <<Garbage, Garbage, Garbage, Garbage>>
    /\ fn.out.r.calls = 1
    /\ fn.out.r.score = None /\ fn.out.r.feedback.kind = "scoring_error"

(***************************************************************************)
(* Properties of the scorers on malformed answers                          *)
(***************************************************************************)
\* C13: no scorer raises for a malformed answer: for a value that is not a
\* dict, a text that is not a string, years that are not a mapping or a value
\* that is not a number, the scorer returns without raising and without a
\* score.
C13_MalformedAnswerGivesNullScore ==
    (fn.op = "scorer" /\ fn.done) =>
        LET v == fn.value
            malformed ==
                \/ v.ty = "scalar"
                \/ /\ v.ty = "dict"
                   /\ \/ fn.scorer = "score_text" /\ v.text.ty \notin {"str", "absent"}
                      \/ /\ fn.scorer = "score_timeseries"
                         /\ v.years.ty \notin {"dict", "absent"}
                      \/ /\ fn.scorer = "score_numeric"
                         /\ v.value.ty \notin {"num", "absent"}
        IN malformed => fn.out.r.ret # "raise" /\ fn.out.r.score = None

(***************************************************************************)
(* Properties of the consistency checker                                   *)
(***************************************************************************)
\* C16: whenever the rule pass returns, a failure of the model pass (the call
\* raised, the completion does not parse, or its issues member is missing or
\* not a list) gives a result, without raising, that holds exactly the rule
\* issues and no model issue; without the model pass no call is made and
\* ai_issues_count is 0; in every result is_consistent holds iff there is no
\* issue and the two counts add up to the number of issues.
C16_ModelPassFailureIsSilent ==
    (fn.op = "check_consistency" /\ fn.done /\ ~run_rule_checks(fn.r).raised) =>
        LET out == fn.out
            ok == {k \in 1..MAX_ATTEMPTS : fn.answers[k].ok}
            reply == fn.answers[CHOOSE k \in ok : \A m \in ok : k <= m]
            failure == fn.use_ai /\ (ok = {} \/ ~reply.valid \/ reply.issues.kind # "list")
        IN /\ failure => /\ ~out.raised
                         /\ out.ai_issues_count = 0
                         /\ out.issues = run_rule_checks(fn.r).issues
           /\ ~fn.use_ai => out.calls = 0 /\ out.ai_issues_count = 0
           /\ ~out.raised =>
                 /\ out.is_consistent <=> out.issues = <<>>
                 /\ out.rule_issues_count + out.ai_issues_count = Len(out.issues)

\* C17: for {TL07: 50, TL06: 40} and nothing else, without the model pass, the
\* checker returns exactly one issue, of high severity, of the staff-count
\* rule, with ai_issues_count 0 and is_consistent false; and the staff-count
\* rule is reported whenever both counts are numbers and TL07 > TL06.
C17_StaffCountRuleReported ==
    (fn.op = "check_consistency" /\ fn.done) =>
        LET tl07 == fn.r["TL07"]
            tl06 == fn.r["TL06"]
            counts == /\ tl07.ty = "dict" /\ tl07.value.ty = "num"
                      /\ tl06.ty = "dict" /\ tl06.value.ty = "num"
            others == \A c \in {"TL09", "TL04", "SE04"} :
                         fn.r[c] = Dict(JAbsent, JAbsent)
        IN /\ (counts /\ tl07.value.n = 50 /\ tl06.value.n = 40 /\ others
               /\ ~fn.use_ai) =>
                 /\ ~fn.out.raised
                 /\ Len(fn.out.issues) = 1
                 /\ fn.out.issues[1].severity = "high"
                 /\ fn.out.issues[1].rule_id = "staff_count_vs_phd"
                 /\ fn.out.ai_issues_count = 0
                 /\ ~fn.out.is_consistent
           /\ (counts /\ tl07.value.n > tl06.value.n) =>
                 /\ ~fn.out.raised
                 /\ \E k \in DOMAIN fn.out.issues :
                       fn.out.issues[k].rule_id = "staff_count_vs_phd"

(***************************************************************************)
(* Properties of dispatch                                                  *)
(***************************************************************************)
\* C20: whenever a worker starts the task of job J, J's row exists and is
\* visible to the worker, and the worker's first status update moves it from
\* queued to processing.
C20_JobVisibleWhenTaskStarts ==
    [][\A w \in Workers :
          (exec[w].pc = "start" /\ exec'[w].pc = "body") =>
              /\ jobs[JobOf(w)].status = "queued"
              /\ JobOf(w) \notin uncommitted
              /\ jobs'[JobOf(w)].status = "processing"]_vars

(***************************************************************************)
(* Properties of the numeric, binary and time-series scorers               *)
(***************************************************************************)
\* C21: for a rubric whose ranges are non-overlapping half-open intervals
\* [min, max) and a numeric value, score_numeric returns the score of the one
\* interval that contains the value (min included, max excluded) and no score
\* when no interval contains it.
C21_ScoreOfTheUniqueInterval ==
    (/\ fn.op = "scorer" /\ fn.done /\ fn.scorer = "score_numeric"
     /\ fn.value.ty = "dict" /\ fn.value.value.ty = "num") =>
        LET rs == fn.rubric.ranges
            x == fn.value.value.n
            Below(r, y) == r.max # None /\ The(r.max) <= y
            Above(r, y) == r.min # None /\ y < The(r.min)
            \* two intervals are disjoint when one ends where the other begins
            Disjoint(p, q) ==
                \/ (p.max # None /\ q.min # None /\ The(p.max) <= The(q.min))
                \/ (q.max # None /\ p.min # None /\ The(q.max) <= The(p.min))
            nonOverlapping == \A k, m \in DOMAIN rs : k # m => Disjoint(rs[k], rs[m])
            holding == {k \in DOMAIN rs : ~Below(rs[k], x) /\ ~Above(rs[k], x)}
        IN nonOverlapping =>
              IF holding = {} THEN fn.out.r.ret = "none"
              ELSE /\ fn.out.r.ret = "dict"
                   /\ \A k \in holding : fn.out.r.score = Some(rs[k].score * 100)

\* the value 15 under ranges [1,5), [5,15), [15,100) is given the third score
C21_BoundaryValueScored ==
    /\ fn.op = "scorer" /\ fn.done /\ fn.scorer = "score_numeric"
    /\ fn.rubric = ItemCfg("TL01").rubric
    /\ fn.value.ty = "dict" /\ fn.value.value = JNum(15)
    /\ fn.out.r.score = Some(10000)

\* C22: score_binary gives 100 to yes without evidence, 0 to no with any
\* evidence under any rubric variant, and 0.3*100 + 0.7*85 = 85.5 to yes with
\* evidence of 600 characters under the binary-with-evidence variant.
C22_NoIsAlwaysZero ==
    (/\ fn.op = "scorer" /\ fn.done /\ fn.scorer = "score_binary"
     /\ fn.value.ty = "dict" /\ fn.value.answer.ty = "bool") =>
        LET yes == fn.value.answer = JBool(TRUE)
            evidence == fn.value.evidence
        IN /\ (yes /\ evidence.ty = "absent") => fn.out.r.score = Some(10000)
           /\ ~yes => fn.out.r.score = Some(0)
           /\ (yes /\ evidence.len = 600 /\ fn.rubric.type = "binary_with_evidence") =>
                 fn.out.r.score = Some(8550)

\* C22, amended: score_binary gives 100 to yes without evidence; to no it gives
\* 0 under the plain variant or with evidence of at most 50 characters, and
\* 0.7 times the evidence quality (40, 65 or 85 by length) under the
\* binary-with-evidence variant with longer evidence; and 0.3*100 + 0.7*85 =
\* 89.5 to yes with evidence of 600 characters under that variant.
C22_EvidenceWeighsSeventyPercent ==
    (/\ fn.op = "scorer" /\ fn.done /\ fn.scorer = "score_binary"
     /\ fn.value.ty = "dict" /\ fn.value.answer.ty = "bool") =>
        LET yes == fn.value.answer = JBool(TRUE)
            evidence == fn.value.evidence
            weighed == /\ fn.rubric.type = "binary_with_evidence"
                       /\ evidence.ty = "str" /\ evidence.len > 50
            quality == IF evidence.len > 500 THEN 85
                       ELSE IF evidence.len > 200 THEN 65 ELSE 40
        IN /\ (yes /\ evidence.ty = "absent") => fn.out.r.score = Some(10000)
           /\ (~yes /\ ~weighed) => fn.out.r.score = Some(0)
           /\ (~yes /\ weighed) => fn.out.r.score = Some(70 * quality)
           /\ (yes /\ evidence.len = 600 /\ fn.rubric.type = "binary_with_evidence") =>
                 fn.out.r.score = Some(8950)

\* no, with evidence of 600 characters, scores 59.5 under binary-with-evidence
C22_NoWithLongEvidenceScores ==
    /\ fn.op = "scorer" /\ fn.done /\ fn.scorer = "score_binary"
    /\ fn.rubric.type = "binary_with_evidence"
    /\ fn.value.ty = "dict" /\ fn.value.answer = JBool(FALSE)
    /\ fn.value.evidence.len = 600
    /\ fn.out.r.score = Some(5950)

\* C23: for a time-series answer with a rubric, score_timeseries returns 50
\* with the data-insufficiency note when fewer than 2 yearly values are usable
\* (none at all included), and otherwise 80 when the classified direction is
\* the rubric's ideal direction, 60 when it is stable and 40 when it is the
\* opposite direction.
C23_FewerThanTwoValuesGiveFifty ==
    (/\ fn.op = "scorer" /\ fn.done /\ fn.scorer = "score_timeseries"
     /\ fn.value.ty = "dict" /\ fn.value.years.ty = "dict") =>
        LET years == fn.value.years.vals
            usable == SelectSeq(years, LAMBDA v : v.ty \in {"num", "dict"})
            Num(j) == IF j.ty = "num" THEN j.n ELSE 0
            totals == [k \in DOMAIN usable |->
                          IF usable[k].ty = "dict"
                          THEN Num(usable[k].male) + Num(usable[k].female)
                          ELSE usable[k].n]
            direction == calculate_trend(totals)
            r == fn.out.r
        IN IF Len(usable) < 2
           THEN r.score = Some(5000) /\ r.feedback.kind = "insufficient_data"
           ELSE r.score = Some(IF direction = fn.rubric.ideal_direction THEN 8000
                               ELSE IF direction = "stable" THEN 6000 ELSE 4000)

\* C24: for every series of 2 or more values and every positive constant c,
\* calculate_trend gives the series and the series with every value multiplied
\* by c the same direction.
C24_DirectionIsScaleInvariant ==
    (fn.op = "calculate_trend" /\ fn.done) => fn.out.direction = fn.out.scaled

(***************************************************************************)
(* Properties of the risk engine                                           *)
(***************************************************************************)
\* C25: the engine has six rules whose weights sum to 1.0; for every metrics
\* map each rule's weighted contribution lies in [0, the rule's weight], and
\* the returned risk_score is the sum of the contributions clamped to [0, 1]
\* (compared to the three decimals the result reports).
C25_ContributionWithinWeight ==
    (fn.op = "compute_risk_score" /\ fn.done) =>
        LET rules == DOMAIN RISK_RULES
            ev == [k \in rules |-> evaluate(RISK_RULES[k], fn.metrics)]
            sum == SumOver(rules, [k \in rules |->
                                      IF ev[k].raised THEN 0
                                      ELSE ev[k].raw * RISK_RULES[k].weight])
            fs == fn.out.contributing_factors
        IN /\ Len(RISK_RULES) = 6
           /\ SumOver(rules, [k \in rules |-> RISK_RULES[k].weight]) = 100
           /\ \A p \in DOMAIN fs : \A k \in rules :
                 fs[p].rule_id = RISK_RULES[k].id =>
                    /\ 0 <= fs[p].weighted_contribution
                    /\ fs[p].weighted_contribution <= 10 * RISK_RULES[k].weight
           /\ fn.out.risk_score = RoundHalfEven(Min(420000, Max(0, sum)), 420)

\* C26: the declining-enrollment rule contributes a flat 0.20 whenever
\* enrollment_trend is "decreasing", and nothing otherwise.
C26_DecliningEnrollmentIsFlat ==
    (fn.op = "compute_risk_score" /\ fn.done) =>
        LET fs == fn.out.contributing_factors
            mine == {p \in DOMAIN fs : fs[p].rule_id = "declining_enrollment"}
        IN IF fn.metrics.enrollment_trend = Trend("decreasing")
           THEN /\ Cardinality(mine) = 1
                /\ \A p \in mine : fs[p].weighted_contribution = 200
           ELSE mine = {}

\* C27: for {financial: 30} and no other metric, only the low-financial-score
\* rule is a contributing factor, risk_score is 0.25 x (40-30)/40 = 0.0625 and
\* risk_level is "low".
C27_FinancialThirtyGivesExactScore ==
    (/\ fn.op = "compute_risk_score" /\ fn.done
     /\ fn.metrics.financial = JNum(30)
     /\ \A m \in DOMAIN fn.metrics \ {"financial"} : fn.metrics[m] = JAbsent) =>
        /\ Len(fn.out.contributing_factors) = 1
        /\ fn.out.contributing_factors[1].rule_id = "low_financial_score"
        /\ 10 * fn.out.risk_score = 625
        /\ fn.out.risk_level = "low"

\* C27, amended: for {financial: 30} and no other metric, only the
\* low-financial-score rule is a contributing factor, risk_score is that rule's
\* contribution 0.0625 rounded to three decimal places, 0.062, and risk_level
\* is "low".
C27_FinancialThirtyGivesRoundedScore ==
    (/\ fn.op = "compute_risk_score" /\ fn.done
     /\ fn.metrics.financial = JNum(30)
     /\ \A m \in DOMAIN fn.metrics \ {"financial"} : fn.metrics[m] = JAbsent) =>
        /\ Len(fn.out.contributing_factors) = 1
        /\ fn.out.contributing_factors[1].rule_id = "low_financial_score"
        /\ fn.out.contributing_factors[1].weighted_contribution = 62
        /\ fn.out.risk_score = 62
        /\ fn.out.risk_level = "low"

\* the engine was run on {financial: 30} alone
C27_FinancialThirtyScored ==
    /\ fn.op = "compute_risk_score" /\ fn.done
    /\ fn.metrics.financial = JNum(30)
    /\ \A m \in DOMAIN fn.metrics \ {"financial"} : fn.metrics[m] = JAbsent
    /\ fn.out.risk_score = 62

(***************************************************************************)
(* Properties of a job record's fields                                     *)
(***************************************************************************)
\* C29: a job record is well-formed for its status in every reachable state:
\* completed has completed_at set, progress 1.0, result_data set and no
\* error_message; failed has completed_at and error_message set; queued has
\* neither started_at nor completed_at; and started_at, once set, never changes.
C29_JobRecordWellFormed ==
    [][\A j \in JobIds :
          LET job == jobs'[j]
          IN /\ job.status = "completed" =>
                   /\ job.completed_at # None /\ job.progress = 100
                   /\ job.result_data # None /\ job.error_message = None
             /\ job.status = "failed" =>
                   job.completed_at # None /\ job.error_message # None
             /\ job.status = "queued" =>
                   job.started_at = None /\ job.completed_at = None
             /\ jobs[j].started_at # None => job.started_at = jobs[j].started_at]_vars

C30_EveryJobReachesAFinalStatus ==
    /\ \A j \in JobIds :
          (jobs[j].status \in {"queued", "processing"}) ~> (jobs[j].status \in Terminal)
    /\ [][\A w \in Workers :
             (exec[w].pc = "finish" /\ exec'[w].pc = "done") =>
                 jobs'[JobOf(w)].status =
                     IF exec[w].raised THEN "failed" ELSE "completed"]_vars

====
